---- MODULE Spec2Model ----
(***************************************************************************)
(* A model of the SOG command processor (SalishSeaCast/SOG, SOGcommand):   *)
(*   - the batch scheduler, SOGcommand/batch_processor.py                  *)
(*   - the YAML override merge, SOGcommand/infile_processor.py             *)
(*   - the flat infile codec, SOGcommand/SOG_infile.py                     *)
(* Each part has its own specification (SpecBatch, SpecMerge, SpecCodec)   *)
(* over the module's variables; the variables of the other parts stay at   *)
(* their idle values.                                                      *)
(***************************************************************************)
EXTENDS Integers, Sequences, FiniteSets, TLC

VARIABLES
    \* ---- batch scheduler (BatchProcessor, Job) ----
    max_concurrent_jobs, \* BatchProcessor.max_concurrent_jobs
    dry_run,             \* the dry_run argument of BatchProcessor.run
    njobs,               \* number of jobs prepare() built (the batch, in order 1..njobs)
    jobs,                \* BatchProcessor.jobs: the pending queue, a list of jobs
    in_progress,         \* BatchProcessor.in_progress: dict pid -> job
    returncode,          \* BatchProcessor.returncode: the aggregate return code
    pc,                  \* position of BatchProcessor.run
    launch_i,            \* loop variable of range(max_concurrent_jobs) in _launch_initial_jobs
    to_poll,             \* jobs of in_progress.copy() the for loop of _poll_and_launch has yet to visit
    process,             \* per job: the state of Job.process (the subprocess)
    pid,                 \* per job: Job.pid (0 is None)
    job_returncode,      \* per job: Job.returncode (NoCode is None)
    exit_status,         \* per job: the status its subprocess exited with (NoCode while it has not)
    start_log,           \* the jobs logged as started (Job.start), in order
    editfile,            \* per job: Job.editfile, the edit files of the job in order
    stdout,              \* the job lines _dry_run printed, in order
    \* ---- override merge (infile_processor.create_infile, _merge_yaml_structs) ----
    merge_pc,            \* position of the merge loop of create_infile
    base_struct,         \* the base document as _deserialize_yaml returned it
    yaml_struct,         \* yaml_struct: the document the edits are merged into
    before_struct,       \* yaml_struct as it was before the latest _merge_yaml_structs call
    edits,               \* the edit structs merged so far, as deserialized, in order
    edit_struct,         \* the edit struct of the latest call, as the call left it
    merge_raised,        \* an exception left _merge_yaml_structs
    \* ---- flat infile codec (SOG_infile.dump, SOG_infile.load) ----
    codec_pc,            \* position of the codec: ready, dumped, loaded
    dump_data,           \* the data argument of dump: key -> record
    dump_key_order,      \* the key_order argument of dump
    dump_extra_keys,     \* the extra_keys argument of dump
    dump_avg_hist_forcing_keys, \* the avg_hist_forcing_keys argument of dump
    stream,              \* the text dump wrote to the stream
    dump_raised,         \* the exception that left dump ("no": it returned)
    load_result,         \* the map load returned
    load_raised,         \* the exception that left load ("no": it returned)
    infile,              \* the infile handed to load: its text, the same records one
                         \* per line, the records, their keys in order, whether its
                         \* end is cut off
    \* ---- batch description (BatchProcessor.prepare) ----
    prepare_pc,          \* position of prepare: read, prepared
    batchfile,           \* the content of the batch description file (NoFile: none)
    built_jobs,          \* the Job objects prepare appended to BatchProcessor.jobs
    prepare_raised,      \* the exception that left prepare ("no": it returned)
    \* ---- validation (infile_processor.create_infile, _deserialize_yaml) ----
    create_pc,           \* position of create_infile: start, base, edited, written, exited
    yaml_data,           \* what _read_yaml_infile returned for the base infile
    edit_data,           \* what _read_yaml_infile returned for each edit file so far
    created_struct,      \* yaml_struct of create_infile (NoStruct: not assigned)
    created_edit_struct, \* edit_struct of create_infile (NoStruct: not assigned)
    stderr,              \* the reports _deserialize_yaml printed, in order
    sys_exit,            \* the status sys.exit was called with (NoCode: not called)
    infile_name,         \* the flat infile create_infile returned (NoFile: none)
    temp_infile,         \* the NamedTemporaryFile of create_infile (NoFile: not created)
    \* ---- job start (batch_processor.Job.start, run_processor.prepare) ----
    start_pc,            \* position of Job.start: prepare, create, check_exec,
                         \* prepared, started, raised
    start_args,          \* the Job handed to prepare as args
    path_exists,         \* the paths os.path.exists answers True for
    start_infile,        \* infile of prepare (NoFile: not assigned)
    cmd,                 \* cmd of Job.start (NoCmd: not assigned)
    popen,               \* the subprocess Popen started (NoProc: none)
    start_raised,        \* the exception that left Job.start ("no": none)
    \* ---- transform (SOG_YAML_schema.yaml_to_infile, SOG_infile_schema.infile_to_yaml) ----
    transform_pc,        \* position of the round trip: nested, flat, returned
    transform_schema,    \* the quantity nodes of the YAML schema handed to both
    transform_struct,    \* yaml_struct handed to yaml_to_infile
    infile_struct,       \* what yaml_to_infile returned
    transform_result,    \* what infile_to_yaml returned
    transform_raised     \* the exception that left infile_to_yaml ("no": none)

batch_vars == <<max_concurrent_jobs, dry_run, njobs, jobs, in_progress, returncode, pc,
                launch_i, to_poll, process, pid, job_returncode, exit_status, start_log,
                editfile, stdout>>

merge_vars == <<merge_pc, base_struct, yaml_struct, before_struct, edits, edit_struct,
                merge_raised>>

codec_vars == <<codec_pc, dump_data, dump_key_order, dump_extra_keys,
                dump_avg_hist_forcing_keys, stream, dump_raised, load_result, load_raised,
                infile>>

prepare_vars == <<prepare_pc, batchfile, built_jobs, prepare_raised>>

create_vars == <<create_pc, yaml_data, edit_data, created_struct, created_edit_struct,
                 stderr, sys_exit, infile_name, temp_infile>>

start_vars == <<start_pc, start_args, path_exists, start_infile, cmd, popen, start_raised>>

transform_vars == <<transform_pc, transform_schema, transform_struct, infile_struct,
                    transform_result, transform_raised>>

vars == <<batch_vars, merge_vars, codec_vars, prepare_vars, create_vars, start_vars,
          transform_vars>>

\* what the steps of one part leave alone
not_batch_vars == <<merge_vars, codec_vars, prepare_vars, create_vars, start_vars, transform_vars>>
not_merge_vars == <<batch_vars, codec_vars, prepare_vars, create_vars, start_vars, transform_vars>>
not_codec_vars == <<batch_vars, merge_vars, prepare_vars, create_vars, start_vars, transform_vars>>
not_prepare_vars == <<batch_vars, merge_vars, codec_vars, create_vars, start_vars, transform_vars>>
not_transform_vars == <<batch_vars, merge_vars, codec_vars, prepare_vars, create_vars,
                       start_vars>>
not_create_vars == <<batch_vars, merge_vars, codec_vars, prepare_vars, start_vars, transform_vars>>

(***************************************************************************)
(* Bounds of the model.                                                    *)
(***************************************************************************)
MaxJobs == 3
MaxConcurrent == 2
MaxPid == 2

JobIds == 1..MaxJobs
Pids == 1..MaxPid
\* exit statuses of a subprocess, as Popen.poll() reports them: 0, errors,
\* and negative numbers for a child killed by a signal
ExitCodes == {0 - 2, 0 - 1, 0, 1, 2}
\* Python's None for Job.returncode / Popen.poll(): a value outside ExitCodes
NoCode == 99

Max(a, b) == IF a >= b THEN a ELSE b
Abs(a) == IF a < 0 THEN 0 - a ELSE a
Range(f) == {f[x] : x \in DOMAIN f}

\* Python values of the documents: None, numbers, booleans, strings
None == [none |-> TRUE]
Num(n) == [num |-> n]
Bool(b) == [bool |-> b]
Str(s) == [str |-> s]

(***************************************************************************)
(* Batch scheduler: BatchProcessor.run and its helpers.                    *)
(***************************************************************************)

\* The batch as prepare() built it: jobs 1..n in batch-file order.
BatchJobs(n) == [k \in 1..n |-> k]

\* Pids of this program's child processes the OS still holds: a pid is
\* released only when Popen.poll() has reaped the exited child.
HeldPids(proc) == {pid[k] : k \in {x \in JobIds : proc[x] \in {"running", "exited"}}}
FreePids(proc) == Pids \ HeldPids(proc)

\* dict.pop(key) and dict[key] = value on in_progress
DictPop(d, key) == [q \in (DOMAIN d) \ {key} |-> d[q]]
DictSet(d, key, value) == [q \in (DOMAIN d) \cup {key} |-> IF q = key THEN value ELSE d[q]]

\* a variant of the poll below that reports every exited child as
\* successful
PollZero(j) == IF process[j] = "exited" THEN 0 ELSE NoCode

\* Popen.poll(): the exit status once the child has exited, else None
Poll(j) == IF process[j] = "exited" THEN exit_status[j] ELSE NoCode

\* self.jobs.pop(0) succeeds (no IndexError)
HasPending == jobs # << >>

\* a variant of the pop below that takes the last pending job (list.pop())
PopLast(q) == [job |-> q[Len(q)], rest |-> SubSeq(q, 1, Len(q) - 1)]

\* self.jobs.pop(0): the first pending job and the queue left
PopFirst(q) == [job |-> Head(q), rest |-> Tail(q)]

\* a variant of the range test below that admits one iteration more
LaunchRangeOffByOne == launch_i <= max_concurrent_jobs

\* a variant of the fold below that forgets abs()
FoldWithoutAbs(agg, code) == Max(agg, code)

\* a variant of the range below that is one short
LaunchRangeOneShort == launch_i + 1 < max_concurrent_jobs

\* range(self.max_concurrent_jobs) still has an item for the loop of
\* _launch_initial_jobs
LaunchRangeHasNext == launch_i < max_concurrent_jobs

\* the fold of a finished job's return code into the aggregate
FoldReturncode(agg, code) == Max(agg, Abs(code))

\* the scheduler before any batch is read (the other parts run without it)
IdleBatch ==
    /\ max_concurrent_jobs = 1
    /\ dry_run = FALSE
    /\ njobs = 0
    /\ jobs = << >>
    /\ in_progress = << >>
    /\ returncode = 0
    /\ pc = "idle"
    /\ launch_i = 0
    /\ to_poll = {}
    /\ process = [j \in JobIds |-> "none"]
    /\ pid = [j \in JobIds |-> 0]
    /\ job_returncode = [j \in JobIds |-> NoCode]
    /\ exit_status = [j \in JobIds |-> NoCode]
    /\ start_log = << >>
    /\ editfile = [j \in JobIds |-> << >>]
    /\ stdout = << >>

\* the merge before any document is read (the other parts run without it)
IdleMerge ==
    /\ merge_pc = "idle"
    /\ base_struct = None
    /\ yaml_struct = None
    /\ before_struct = None
    /\ edits = << >>
    /\ edit_struct = None
    /\ merge_raised = FALSE

\* the codec before any data is handed to it (the other parts run without it)
IdleCodec ==
    /\ codec_pc = "idle"
    /\ dump_data = << >>
    /\ dump_key_order = << >>
    /\ dump_extra_keys = << >>
    /\ dump_avg_hist_forcing_keys = << >>
    /\ stream = << >>
    /\ dump_raised = "no"
    /\ load_result = << >>
    /\ load_raised = "no"
    /\ infile = [text |-> << >>, one_line |-> << >>, records |-> << >>, keys |-> << >>,
                 truncated |-> FALSE]

\* a batch description file that does not exist
NoFile == [nofile |-> TRUE]

\* prepare before any batch file is named (the other parts run without it)
IdlePrepare ==
    /\ prepare_pc = "idle"
    /\ batchfile = NoFile
    /\ built_jobs = << >>
    /\ prepare_raised = "no"

\* a name create_infile has not assigned yet
NoStruct == [nostruct |-> TRUE]

\* create_infile before any infile is named (the other parts run without it)
IdleCreate ==
    /\ create_pc = "idle"
    /\ yaml_data = << >>
    /\ edit_data = << >>
    /\ created_struct = NoStruct
    /\ created_edit_struct = NoStruct
    /\ stderr = << >>
    /\ sys_exit = NoCode
    /\ infile_name = NoFile
    /\ temp_infile = NoFile

\* a cmd prepare has not built, a subprocess Popen has not started
NoCmd == [nocmd |-> TRUE]
NoProc == [noproc |-> TRUE]

\* Job.start before any job is started (the other parts run without it)
IdleStart ==
    /\ start_pc = "idle"
    /\ start_args = << >>
    /\ path_exists = {}
    /\ start_infile = NoFile
    /\ cmd = NoCmd
    /\ popen = NoProc
    /\ start_raised = "no"

\* the transform before any structure is handed to it (the other parts run
\* without it)
IdleTransform ==
    /\ transform_pc = "idle"
    /\ transform_schema = {}
    /\ transform_struct = << >>
    /\ infile_struct = << >>
    /\ transform_result = << >>
    /\ transform_raised = "no"

\* the edit file lists of the jobs prepare() built.  What a job's edit
\* files do to a run is in create_infile, whose outcome Job.start takes as a
\* choice, so the lists are drawn for the dry run, which prints them
EditfileLists == {<< >>, <<"e1.yaml", "e2.yaml">>, <<"e2.yaml", "e1.yaml">>}
JobEditfileLists(n, dry) ==
    {f \in [JobIds -> EditfileLists] :
        \A j \in JobIds : (j > n \/ ~dry) => f[j] = << >>}

InitBatch ==
    /\ IdleMerge
    /\ IdleCodec
    /\ IdlePrepare
    /\ IdleCreate
    /\ IdleStart
    /\ IdleTransform
    /\ max_concurrent_jobs \in 0..MaxConcurrent
    /\ dry_run \in BOOLEAN
    /\ njobs \in 0..MaxJobs
    /\ jobs = BatchJobs(njobs)
    /\ in_progress = << >>
    /\ returncode = 0
    /\ pc = "init"
    /\ launch_i = 0
    /\ to_poll = {}
    /\ process = [j \in JobIds |-> "none"]
    /\ pid = [j \in JobIds |-> 0]
    /\ job_returncode = [j \in JobIds |-> NoCode]
    /\ exit_status = [j \in JobIds |-> NoCode]
    /\ start_log = << >>
    /\ editfile \in JobEditfileLists(njobs, dry_run)
    /\ stdout = << >>

\* the -e flags of the command line _dry_run prints for a job
EditFlags(editfiles) == [i \in 1..Len(editfiles) |-> <<"-e", editfiles[i]>>]

\* a variant of the loop below that prints the jobs from the last to the
\* first
DryRunLinesReversed(q) ==
    [i \in 1..Len(q) |-> [jobname |-> q[Len(q) + 1 - i],
                          edit_flags |-> EditFlags(editfile[q[Len(q) + 1 - i]])]]

\* the for loop of _dry_run over self.jobs: one line for each job, with the
\* name of the job and its -e flags
DryRunLines(q) ==
    [i \in 1..Len(q) |-> [jobname |-> q[i], edit_flags |-> EditFlags(editfile[q[i]])]]

\* run(dry_run=True): _dry_run() prints the jobs; returncode = 0 is returned
DryRun ==
    /\ pc = "init" /\ dry_run
    /\ stdout' = stdout \o DryRunLines(jobs)
    /\ returncode' = 0
    /\ pc' = "done"
    /\ UNCHANGED <<not_batch_vars, editfile, max_concurrent_jobs, dry_run, njobs, jobs, in_progress, launch_i,
                   to_poll, process, pid, job_returncode, exit_status, start_log>>

\* run(): entry into _launch_initial_jobs
RunStart ==
    /\ pc = "init" /\ ~dry_run
    /\ pc' = "launch"
    /\ launch_i' = 0
    /\ UNCHANGED <<not_batch_vars, editfile, stdout, max_concurrent_jobs, dry_run, njobs, jobs, in_progress, returncode,
                   to_poll, process, pid, job_returncode, exit_status, start_log>>

\* Job.start() succeeding for job j with the child getting pid p:
\* process and pid are cached and the start is logged
JobStarted(j, p, proc) ==
    /\ process' = [proc EXCEPT ![j] = "running"]
    /\ pid' = [pid EXCEPT ![j] = p]
    /\ start_log' = Append(start_log, j)

\* one iteration of the for loop of _launch_initial_jobs: pop(0), start,
\* in_progress[job.pid] = job
LaunchInitialJob ==
    /\ pc = "launch" /\ LaunchRangeHasNext /\ HasPending
    /\ \E p \in FreePids(process) :
         /\ JobStarted(PopFirst(jobs).job, p, process)
         /\ in_progress' = DictSet(in_progress, p, PopFirst(jobs).job)
    /\ jobs' = PopFirst(jobs).rest
    /\ launch_i' = launch_i + 1
    /\ UNCHANGED <<not_batch_vars, editfile, stdout, max_concurrent_jobs, dry_run, njobs, returncode, pc, to_poll,
                   job_returncode, exit_status>>

\* the same iteration when Job.start() raises (run_processor.prepare raises
\* IOError, create_infile exits or raises, Popen raises): the job has been
\* popped and the exception leaves run()
LaunchInitialRaise ==
    /\ pc = "launch" /\ LaunchRangeHasNext /\ HasPending
    /\ jobs' = PopFirst(jobs).rest
    /\ pc' = "raised"
    /\ UNCHANGED <<not_batch_vars, editfile, stdout, max_concurrent_jobs, dry_run, njobs, in_progress, returncode, launch_i,
                   to_poll, process, pid, job_returncode, exit_status, start_log>>

\* the loop of _launch_initial_jobs ends: the range is exhausted, or
\* pop(0) raised IndexError (break)
LaunchInitialEnd ==
    /\ pc = "launch" /\ (~LaunchRangeHasNext \/ ~HasPending)
    /\ pc' = "loop"
    /\ UNCHANGED <<not_batch_vars, editfile, stdout, max_concurrent_jobs, dry_run, njobs, jobs, in_progress, returncode,
                   launch_i, to_poll, process, pid, job_returncode, exit_status, start_log>>

\* while self.jobs or self.in_progress: time.sleep(15), then
\* _poll_and_launch() starts to iterate over in_progress.copy()
SleepAndPoll ==
    /\ pc = "loop" /\ (HasPending \/ DOMAIN in_progress # {})
    /\ pc' = "poll"
    /\ to_poll' = Range(in_progress)
    /\ UNCHANGED <<not_batch_vars, editfile, stdout, max_concurrent_jobs, dry_run, njobs, jobs, in_progress, returncode,
                   launch_i, process, pid, job_returncode, exit_status, start_log>>

\* the while loop ends: 'all jobs completed', return self.returncode
RunReturn ==
    /\ pc = "loop" /\ ~(HasPending \/ DOMAIN in_progress # {})
    /\ pc' = "done"
    /\ UNCHANGED <<not_batch_vars, editfile, stdout, max_concurrent_jobs, dry_run, njobs, jobs, in_progress, returncode,
                   launch_i, to_poll, process, pid, job_returncode, exit_status, start_log>>

\* one iteration of the for loop of _poll_and_launch for a job that is
\* still running: Job.done caches poll()'s None and returns False
PollNotDone(j) ==
    /\ pc = "poll" /\ j \in to_poll /\ process[j] # "exited"
    /\ job_returncode' = [job_returncode EXCEPT ![j] = Poll(j)]
    /\ to_poll' = to_poll \ {j}
    /\ UNCHANGED <<not_batch_vars, editfile, stdout, max_concurrent_jobs, dry_run, njobs, jobs, in_progress, returncode, pc,
                   launch_i, process, pid, exit_status, start_log>>

\* the iteration for a finished job when the pending queue is empty:
\* pop it from in_progress, fold its return code, IndexError -> continue
PollDoneNoPending(j) ==
    /\ pc = "poll" /\ j \in to_poll /\ process[j] = "exited" /\ ~HasPending
    /\ job_returncode' = [job_returncode EXCEPT ![j] = Poll(j)]
    /\ process' = [process EXCEPT ![j] = "reaped"]
    /\ in_progress' = DictPop(in_progress, pid[j])
    /\ returncode' = FoldReturncode(returncode, Poll(j))
    /\ to_poll' = to_poll \ {j}
    /\ UNCHANGED <<not_batch_vars, editfile, stdout, max_concurrent_jobs, dry_run, njobs, jobs, pc, launch_i, pid,
                   exit_status, start_log>>

\* the iteration for a finished job with a job pending: pop it, fold its
\* return code, pop the next pending job, start it, add it to in_progress
PollDoneLaunch(j) ==
    /\ pc = "poll" /\ j \in to_poll /\ process[j] = "exited" /\ HasPending
    /\ job_returncode' = [job_returncode EXCEPT ![j] = Poll(j)]
    /\ returncode' = FoldReturncode(returncode, Poll(j))
    /\ \E p \in FreePids([process EXCEPT ![j] = "reaped"]) :
         /\ JobStarted(PopFirst(jobs).job, p, [process EXCEPT ![j] = "reaped"])
         /\ in_progress' = DictSet(DictPop(in_progress, pid[j]), p, PopFirst(jobs).job)
    /\ jobs' = PopFirst(jobs).rest
    /\ to_poll' = to_poll \ {j}
    /\ UNCHANGED <<not_batch_vars, editfile, stdout, max_concurrent_jobs, dry_run, njobs, pc, launch_i, exit_status>>

\* the same iteration when Job.start() of the next pending job raises:
\* the exception leaves _poll_and_launch and run()
PollDoneRaise(j) ==
    /\ pc = "poll" /\ j \in to_poll /\ process[j] = "exited" /\ HasPending
    /\ job_returncode' = [job_returncode EXCEPT ![j] = Poll(j)]
    /\ process' = [process EXCEPT ![j] = "reaped"]
    /\ in_progress' = DictPop(in_progress, pid[j])
    /\ returncode' = FoldReturncode(returncode, Poll(j))
    /\ jobs' = PopFirst(jobs).rest
    /\ pc' = "raised"
    /\ UNCHANGED <<not_batch_vars, editfile, stdout, max_concurrent_jobs, dry_run, njobs, launch_i, to_poll, pid,
                   exit_status, start_log>>

\* the for loop of _poll_and_launch is exhausted: back to the while test
PollEnd ==
    /\ pc = "poll" /\ to_poll = {}
    /\ pc' = "loop"
    /\ UNCHANGED <<not_batch_vars, editfile, stdout, max_concurrent_jobs, dry_run, njobs, jobs, in_progress, returncode,
                   launch_i, to_poll, process, pid, job_returncode, exit_status, start_log>>

\* the environment: the subprocess of job j exits with status c
ProcExit(j, c) ==
    /\ process[j] = "running"
    /\ process' = [process EXCEPT ![j] = "exited"]
    /\ exit_status' = [exit_status EXCEPT ![j] = c]
    /\ UNCHANGED <<not_batch_vars, editfile, stdout, max_concurrent_jobs, dry_run, njobs, jobs, in_progress, returncode, pc,
                   launch_i, to_poll, pid, job_returncode, start_log>>

\* the steps of BatchProcessor.run itself
SchedulerStep ==
    \/ DryRun
    \/ RunStart
    \/ LaunchInitialJob
    \/ LaunchInitialRaise
    \/ LaunchInitialEnd
    \/ SleepAndPoll
    \/ RunReturn
    \/ \E j \in JobIds : PollNotDone(j)
    \/ \E j \in JobIds : PollDoneNoPending(j)
    \/ \E j \in JobIds : PollDoneLaunch(j)
    \/ \E j \in JobIds : PollDoneRaise(j)
    \/ PollEnd

NextBatch ==
    \/ SchedulerStep
    \/ \E j \in JobIds, c \in ExitCodes : ProcExit(j, c)

SpecBatch == InitBatch /\ [][NextBatch]_vars

\* The scheduler is one thread that keeps running, and every started
\* subprocess eventually exits.
SpecBatchFair ==
    /\ InitBatch /\ [][NextBatch]_vars
    /\ WF_vars(SchedulerStep)
    /\ \A j \in JobIds : WF_vars(\E c \in ExitCodes : ProcExit(j, c))

(***************************************************************************)
(* Claims about the batch scheduler.                                       *)
(***************************************************************************)

\* the jobs popped from in_progress so far (their subprocess was reaped)
Removed == {j \in JobIds : process[j] = "reaped"}
\* the jobs Job.start() has started so far
Started == {j \in JobIds : process[j] # "none"}
\* the maximum of 0 and the absolute exit codes of the jobs of S
RECURSIVE MaxAbsExit(_)
MaxAbsExit(S) ==
    IF S = {} THEN 0
    ELSE LET j == CHOOSE x \in S : TRUE
         IN  Max(Abs(exit_status[j]), MaxAbsExit(S \ {j}))
\* the position of job j in the start log (0: not started)
StartPos(j) ==
    IF \E k \in 1..Len(start_log) : start_log[k] = j
    THEN CHOOSE k \in 1..Len(start_log) : start_log[k] = j
    ELSE 0

\* C1: during run() (not a dry run), with max_concurrent_jobs >= 1, the
\* in-progress set never holds more than max_concurrent_jobs jobs,
\* whatever the number of jobs and the order in which subprocesses exit.
C1_InProgressBounded ==
    (~dry_run /\ max_concurrent_jobs >= 1)
        => /\ Cardinality(DOMAIN in_progress) <= max_concurrent_jobs
           /\ Cardinality(Range(in_progress)) <= max_concurrent_jobs

\* C1 witness: both slots of a batch with max_concurrent_jobs = 2 are
\* taken after a finished job was replaced, with a job still pending.
C1_Witness ==
    /\ ~dry_run /\ max_concurrent_jobs = 2 /\ njobs = 3
    /\ Cardinality(DOMAIN in_progress) = 2
    /\ Removed # {}

\* C2: at every point of run() the aggregate return code is the maximum
\* of 0 and the absolute exit codes of the jobs already removed from the
\* in-progress set; it is never negative and never decreases; and what
\* run() returns is the maximum absolute exit code over the whole batch.
C2_AggregateIsMaxAbs ==
    /\ [](/\ returncode = MaxAbsExit(Removed)
          /\ returncode >= 0
          /\ (pc = "done" /\ ~dry_run)
                => /\ Removed = 1..njobs
                   /\ returncode = MaxAbsExit(1..njobs))
    /\ [][returncode' >= returncode]_vars

\* C2 witness: a batch of three jobs with exit codes 0, 2, -1 has
\* returned 2.
C2_Witness ==
    /\ pc = "done" /\ ~dry_run /\ njobs = 3
    /\ exit_status[1] = 0 /\ exit_status[2] = 2 /\ exit_status[3] = 0 - 1
    /\ returncode = 2

\* C3: with max_concurrent_jobs >= 1, if every started subprocess
\* eventually exits then run() eventually returns, and then both the
\* pending queue and the in-progress set are empty.
C3_RunReturns ==
    (~dry_run /\ max_concurrent_jobs >= 1)
        => <>(pc = "done" /\ jobs = << >> /\ DOMAIN in_progress = {})

\* C4: jobs are started in batch order: for jobs a before b of the batch,
\* b is never started unless a was started before it.
C4_StartedInBatchOrder ==
    \A a \in 1..njobs, b \in 1..njobs :
        (a < b /\ StartPos(b) # 0) => (StartPos(a) # 0 /\ StartPos(a) < StartPos(b))

\* C4 witness: with two slots, job 2 finished while job 1 is still
\* running, and job 3 was started in the freed slot.
C4_Witness ==
    /\ max_concurrent_jobs = 2 /\ njobs = 3
    /\ process[1] = "running" /\ process[2] = "reaped"
    /\ start_log = <<1, 2, 3>>

\* C20: run(dry_run=True) takes no step of the run loop: no job is
\* started (Job.start is where the flat infile is built and the subprocess
\* opened) and no job has a process or a pid; the pending list is the whole
\* batch and in_progress is empty, as before the call; one line has been
\* printed for every job, in the order of the batch, each with the -e flags
\* of the job's edit files in their order; the aggregate return code, which
\* run returns, is 0.
C20_DryRunReportsOnly ==
    dry_run =>
        /\ pc \in {"init", "done"}
        /\ start_log = << >>
        /\ \A j \in JobIds : process[j] = "none" /\ pid[j] = 0
        /\ jobs = BatchJobs(njobs)
        /\ in_progress = << >>
        /\ pc = "done" =>
              /\ Len(stdout) = njobs
              /\ \A i \in 1..njobs :
                     /\ stdout[i].jobname = i
                     /\ Len(stdout[i].edit_flags) = Len(editfile[i])
                     /\ \A k \in 1..Len(editfile[i]) :
                            stdout[i].edit_flags[k] = <<"-e", editfile[i][k]>>
              /\ returncode = 0

\* a dry run of three jobs whose edit files differ in number and order
C20_Witness ==
    /\ dry_run /\ pc = "done" /\ njobs = 3
    /\ editfile = <<<<"e1.yaml", "e2.yaml">>, << >>, <<"e2.yaml", "e1.yaml">>>>
    /\ stdout = <<[jobname |-> 1, edit_flags |-> <<<<"-e", "e1.yaml">>, <<"-e", "e2.yaml">>>>],
                  [jobname |-> 2, edit_flags |-> << >>],
                  [jobname |-> 3, edit_flags |-> <<<<"-e", "e2.yaml">>, <<"-e", "e1.yaml">>>>]>>
    /\ jobs = <<1, 2, 3>> /\ returncode = 0

\* the jobs whose Job.start() raised: popped from the pending queue and
\* never started
FailedPreparation ==
    {j \in 1..njobs : j \notin Range(jobs) /\ process[j] = "none"}

\* C21: a Job.start() that raises while the flat infile of a job is built
\* aborts only that job: once the scheduler takes no more steps, every
\* other job of the batch has been started, polled until it was found
\* finished and removed from in_progress, and the aggregate return code is
\* the maximum absolute exit code of those jobs.
C21_FailureAbortsOnlyThatJob ==
    (~dry_run /\ pc \in {"done", "raised"} /\ FailedPreparation # {}) =>
        /\ jobs = << >>
        /\ DOMAIN in_progress = {}
        /\ \A j \in (1..njobs) \ FailedPreparation :
               process[j] = "reaped" /\ job_returncode[j] = exit_status[j]
        /\ returncode = MaxAbsExit((1..njobs) \ FailedPreparation)

\* a job that exited with a non-zero code has been found done by a poll
NonZeroDetected ==
    ~dry_run /\ max_concurrent_jobs >= 1 /\ \E j \in Removed : exit_status[j] # 0

\* C23: a job that exits with a non-zero code never stops the scheduler:
\* once such a job has been found done, every job that is still pending is
\* eventually started and run() eventually returns, given that the
\* scheduler keeps running and every subprocess eventually exits.
C23_NonZeroExitNeverStops ==
    /\ \A k \in JobIds : (NonZeroDetected /\ k \in Range(jobs)) ~> (k \in Started)
    /\ NonZeroDetected ~> (pc = "done")

\* the stages of a job's subprocess, in the order a job goes through them
Stage(p) == CASE p = "none" -> 0 [] p = "running" -> 1 [] p = "exited" -> 2 [] p = "reaped" -> 3

\* C26: the lifecycle of a job is monotonic and exact.  At all times: no
\* job is in the start log twice; no job is both pending and in progress,
\* or twice in either; a job has a process and a pid exactly if it has been
\* started, and it is pending or in progress exactly while it has not been
\* started, resp. has been started and not been found finished; its return
\* code is unset until a poll has found its subprocess finished and is then
\* the exit code of the subprocess; when run() has returned every job of
\* the batch has been started once and has its return code.  In every
\* step: a job never goes back a stage, keeps its pid and its recorded
\* return code, and the start log only grows at its end.
C26_JobLifecycle ==
    /\ [](~dry_run =>
            /\ \A a, b \in 1..Len(start_log) : start_log[a] = start_log[b] => a = b
            /\ \A a, b \in 1..Len(jobs) : jobs[a] = jobs[b] => a = b
            /\ \A a, b \in DOMAIN in_progress : in_progress[a] = in_progress[b] => a = b
            /\ Range(jobs) \cap Range(in_progress) = {}
            /\ \A j \in JobIds :
                  /\ (process[j] # "none") <=> (pid[j] # 0)
                  /\ (process[j] # "none") <=> (j \in Range(start_log))
                  /\ j \in Range(jobs) => process[j] = "none"
                  /\ j \in Range(in_progress) <=> process[j] \in {"running", "exited"}
                  /\ j \in Range(in_progress) => in_progress[pid[j]] = j
                  /\ process[j] # "reaped" => job_returncode[j] = NoCode
                  /\ process[j] = "reaped" =>
                        job_returncode[j] # NoCode /\ job_returncode[j] = exit_status[j]
            /\ pc = "done" =>
                  \A j \in 1..njobs : j \in Range(start_log) /\ job_returncode[j] # NoCode)
    /\ [][/\ \A j \in JobIds :
                /\ Stage(process'[j]) >= Stage(process[j])
                /\ pid[j] # 0 => pid'[j] = pid[j]
                /\ job_returncode[j] # NoCode => job_returncode'[j] = job_returncode[j]
          /\ Len(start_log') >= Len(start_log)
          /\ SubSeq(start_log', 1, Len(start_log)) = start_log]_vars

\* C26 witness: run() has returned for a batch of three jobs on two slots
\* whose subprocesses exited with 1, 0 and -2
C26_Witness ==
    /\ ~dry_run /\ pc = "done" /\ njobs = 3 /\ max_concurrent_jobs = 2
    /\ start_log = <<1, 2, 3>>
    /\ job_returncode = <<1, 0, 0 - 2>>

\* C29: the scheduler is work-conserving: with max_concurrent_jobs >= 1,
\* after _launch_initial_jobs and after every completed call of
\* _poll_and_launch, if a job is still pending then in_progress holds
\* exactly max_concurrent_jobs jobs, each with a subprocess.
C29_WorkConserving ==
    (~dry_run /\ max_concurrent_jobs >= 1 /\ pc = "loop" /\ jobs # << >>) =>
        /\ Cardinality(DOMAIN in_progress) = max_concurrent_jobs
        /\ Cardinality(Range(in_progress)) = max_concurrent_jobs
        /\ \A j \in Range(in_progress) : process[j] \in {"running", "exited"}

\* C29 witness: after a polling round that replaced the finished first job
\* by the second, the one slot is taken and the third job is still pending
C29_Witness ==
    /\ ~dry_run /\ max_concurrent_jobs = 1 /\ njobs = 3 /\ pc = "loop"
    /\ Removed = {1} /\ jobs = <<3>>
    /\ Range(in_progress) = {2}

\* C30: with max_concurrent_jobs = 0 and at least one job, run() never
\* starts a job, in_progress stays empty, the pending queue stays the whole
\* batch, and run() neither returns nor is left by an exception: every
\* while test finds a pending job and every polling round finds nothing to
\* poll.
C30_ZeroSlotsNeverTerminates ==
    (~dry_run /\ max_concurrent_jobs = 0 /\ njobs >= 1) =>
        /\ start_log = << >>
        /\ \A j \in JobIds : process[j] = "none"
        /\ in_progress = << >>
        /\ jobs = BatchJobs(njobs)
        /\ pc \in {"init", "launch", "loop", "poll"}
        /\ pc = "loop" => HasPending
        /\ pc = "poll" => to_poll = {}

\* C30 witness: a polling round of a batch of two jobs without a slot
C30_Witness ==
    /\ ~dry_run /\ max_concurrent_jobs = 0 /\ njobs = 2
    /\ pc = "poll" /\ to_poll = {} /\ jobs = <<1, 2>>

(***************************************************************************)
(* Override merge: infile_processor.create_infile merges each edit struct  *)
(* into the base struct with _merge_yaml_structs.  Documents are nested    *)
(* mappings as the colander schema deserializes them: a group or quantity  *)
(* that is missing from an edit file is None, a quantity is a mapping of   *)
(* units, description and value.                                           *)
(***************************************************************************)
MaxNum == 1

\* The schema: a part of YAML_Infile with the shape of the whole, two
\* groups with a Float and a Boolean quantity (grid.model_depth, vary.wind).
QuantityFields == {"units", "description", "value"}
SchemaPaths ==
    {<<"grid", "model_depth", f>> : f \in QuantityFields}
        \cup {<<"vary", "wind", f>> : f \in QuantityFields}

\* what the schema's types deserialize a present value to
DepthValues == {Num(n) : n \in 0..MaxNum}
WindValues == {Bool(b) : b \in BOOLEAN}

\* base documents (allow_missing false): every group, quantity, description
\* and value is present; units has missing=None
BaseStructs ==
    {[grid |-> [model_depth |-> [units |-> u, description |-> Str("depth"), value |-> v]],
      vary |-> [wind |-> [units |-> None, description |-> Str("vary wind"), value |-> w]]] :
        u \in {None, Str("m")}, v \in DepthValues, w \in WindValues}

\* edit documents (allow_missing true): a missing group or quantity is
\* None, and so are a missing description and missing units; the value of
\* a quantity that is given is required
EditQuantities(values, units) ==
    {None} \cup {[units |-> u, description |-> d, value |-> v] :
                    u \in units, d \in {None, Str("edited")}, v \in values}
EditStructs ==
    {[grid |-> g, vary |-> y] :
        g \in {None} \cup {[model_depth |-> q] : q \in EditQuantities(DepthValues, {None, Str("km")})},
        y \in {None} \cup {[wind |-> q] : q \in EditQuantities(WindValues, {None})}}

\* a variant of the truth test below that takes every value, None too,
\* as true
TruthyAlways(v) == TRUE

\* Python's truth value of a leaf value: `if value:`
Truthy(v) ==
    IF v = None THEN FALSE
    ELSE IF "num" \in DOMAIN v THEN v.num # 0
    ELSE IF "bool" \in DOMAIN v THEN v.bool
    ELSE IF "str" \in DOMAIN v THEN v.str # ""
    ELSE DOMAIN v # {}

\* schema.flatten(yaml_struct).iterkeys(): the dotted paths of the leaves
\* of the schema
FlattenKeys(appstruct) == SchemaPaths

\* schema.get_value(appstruct, path): subscripting None raises TypeError,
\* a missing key raises KeyError
RECURSIVE get_value(_, _)
get_value(appstruct, path) ==
    IF appstruct = None THEN [exc |-> "TypeError"]
    ELSE IF Head(path) \notin DOMAIN appstruct THEN [exc |-> "KeyError"]
    ELSE IF Len(path) > 1 THEN get_value(appstruct[Head(path)], Tail(path))
    ELSE [exc |-> "no", val |-> appstruct[Head(path)]]

\* a variant of set_value below that stores every value in the value
\* field of the quantity
RECURSIVE set_value_in_value_field(_, _, _)
set_value_in_value_field(appstruct, path, value) ==
    IF appstruct = None THEN [exc |-> "TypeError"]
    ELSE IF Len(path) > 1
    THEN LET sub == set_value_in_value_field(appstruct[Head(path)], Tail(path), value)
         IN  IF sub.exc # "no" THEN sub
             ELSE [exc |-> "no", val |-> [appstruct EXCEPT ![Head(path)] = sub.val]]
    ELSE [exc |-> "no", val |-> [appstruct EXCEPT !["value"] = value]]

\* schema.set_value(appstruct, path, value): the struct after the
\* assignment; subscripting None raises TypeError
RECURSIVE set_value(_, _, _)
set_value(appstruct, path, value) ==
    IF appstruct = None THEN [exc |-> "TypeError"]
    ELSE IF Len(path) > 1
    THEN LET sub == set_value(appstruct[Head(path)], Tail(path), value)
         IN  IF sub.exc # "no" THEN sub
             ELSE [exc |-> "no", val |-> [appstruct EXCEPT ![Head(path)] = sub.val]]
    ELSE [exc |-> "no", val |-> [f \in (DOMAIN appstruct) \cup {Head(path)} |->
                                    IF f = Head(path) THEN value ELSE appstruct[f]]]

\* the body of the for loop of _merge_yaml_structs for one key: the two
\* structs after it, and whether an exception other than TypeError left it
MergeKey(key, es, ys) ==
    LET got == get_value(es, key)
    IN  IF got.exc = "TypeError" THEN [edit |-> es, yaml |-> ys, raised |-> FALSE]
        ELSE IF got.exc # "no" THEN [edit |-> es, yaml |-> ys, raised |-> TRUE]
        ELSE IF ~Truthy(got.val) THEN [edit |-> es, yaml |-> ys, raised |-> FALSE]
        ELSE LET put == set_value(ys, key, got.val)
             IN  IF put.exc = "no" THEN [edit |-> es, yaml |-> put.val, raised |-> FALSE]
                 ELSE [edit |-> es, yaml |-> ys, raised |-> put.exc # "TypeError"]

\* the for loop of _merge_yaml_structs over the keys not yet visited
RECURSIVE MergeLoop(_, _, _)
MergeLoop(keys, es, ys) ==
    IF keys = {} THEN [edit |-> es, yaml |-> ys, raised |-> FALSE]
    ELSE LET key == CHOOSE k \in keys : TRUE
             r == MergeKey(key, es, ys)
         IN  IF r.raised THEN r ELSE MergeLoop(keys \ {key}, r.edit, r.yaml)

\* _merge_yaml_structs(edit_struct, yaml_struct, schema)
merge_yaml_structs(es, ys) == MergeLoop(FlattenKeys(ys), es, ys)

InitMerge ==
    /\ IdleBatch
    /\ IdleCodec
    /\ IdlePrepare
    /\ IdleCreate
    /\ IdleStart
    /\ IdleTransform
    /\ merge_pc = "read"
    /\ base_struct \in BaseStructs
    /\ yaml_struct = base_struct
    /\ before_struct = base_struct
    /\ edits = << >>
    /\ edit_struct = None
    /\ merge_raised = FALSE

\* one iteration of the loop over edit_files of create_infile: the edit
\* file is read, deserialized in edit mode and merged into yaml_struct
MergeEdit(e) ==
    /\ merge_pc \in {"read", "merged1"}
    /\ ~merge_raised
    /\ LET r == merge_yaml_structs(e, yaml_struct)
       IN  /\ yaml_struct' = r.yaml
           /\ edit_struct' = r.edit
           /\ merge_raised' = r.raised
    /\ before_struct' = yaml_struct
    /\ edits' = Append(edits, e)
    /\ merge_pc' = IF merge_pc = "read" THEN "merged1" ELSE "merged2"
    /\ UNCHANGED <<not_merge_vars, base_struct>>

\* _merge_yaml_structs called with a document as both the edit struct and
\* the struct to merge into
MergeSelf ==
    /\ merge_pc = "read"
    /\ LET r == merge_yaml_structs(yaml_struct, yaml_struct)
       IN  /\ yaml_struct' = r.yaml
           /\ edit_struct' = r.yaml
           /\ merge_raised' = r.raised
    /\ before_struct' = yaml_struct
    /\ edits' = Append(edits, yaml_struct)
    /\ merge_pc' = "self"
    /\ UNCHANGED <<not_merge_vars, base_struct>>

NextMerge ==
    \/ \E e \in EditStructs : MergeEdit(e)
    \/ MergeSelf

SpecMerge == InitMerge /\ [][NextMerge]_vars

(***************************************************************************)
(* Claims about the override merge.                                        *)
(***************************************************************************)

\* the value a full document holds at a leaf path
ValueAt(struct, path) == get_value(struct, path).val
\* the edit document has a value at the leaf path: the path is neither
\* under a missing group or quantity nor itself None
Sets(edit, path) ==
    LET got == get_value(edit, path)
    IN  got.exc = "no" /\ got.val # None
\* the edit struct of the latest merge, as it was deserialized
LastEdit == edits[Len(edits)]

\* C5: an edit value that is present but falsy (0, false) overwrites the
\* base value at its path: after the merge the base holds the edit's value.
C5_FalsyValueOverwrites ==
    merge_pc = "merged1"
        => \A p \in SchemaPaths :
              (Sets(edits[1], p) /\ ~Truthy(ValueAt(edits[1], p)))
                  => ValueAt(yaml_struct, p) = ValueAt(edits[1], p)

\* C6: edits A then B are applied left to right: at every leaf path the
\* merged value is B's if B sets the path, else A's if A sets it, else
\* the base's.
C6_LeftToRight ==
    merge_pc = "merged2"
        => \A p \in SchemaPaths :
              ValueAt(yaml_struct, p) =
                  IF Sets(edits[2], p) THEN ValueAt(edits[2], p)
                  ELSE IF Sets(edits[1], p) THEN ValueAt(edits[1], p)
                  ELSE ValueAt(base_struct, p)

\* C7: merging a document into itself leaves it unchanged, and merging
\* the same edit a second time leaves the result of the first merge
\* unchanged.
C7_MergeIdempotent ==
    /\ merge_pc = "self" => (yaml_struct = before_struct /\ ~merge_raised)
    /\ (merge_pc = "merged2" /\ edits[2] = edits[1])
          => (yaml_struct = before_struct /\ ~merge_raised)

\* C7 witness: an edit that changed the base has been merged a second time.
C7_Witness ==
    /\ merge_pc = "merged2" /\ edits[2] = edits[1]
    /\ before_struct # base_struct
    /\ Sets(edits[1], <<"grid", "model_depth", "value">>)

\* C8: a merge changes the base only at leaf paths where the edit has a
\* value: every other path keeps its value, also under a group or
\* quantity the edit leaves out; the merge does not raise, and the edit
\* document is left as it was.
C8_MergeFrame ==
    merge_pc \in {"merged1", "merged2"}
        => /\ ~merge_raised
           /\ edit_struct = LastEdit
           /\ \A p \in SchemaPaths :
                 ~Sets(LastEdit, p) => ValueAt(yaml_struct, p) = ValueAt(before_struct, p)

\* C8 witness: an edit without the grid group, and without units for the
\* quantity it gives, has changed the base.
C8_Witness ==
    /\ merge_pc = "merged1"
    /\ edits[1].grid = None /\ edits[1].vary # None /\ edits[1].vary.wind # None
    /\ yaml_struct # before_struct
    /\ ValueAt(before_struct, <<"grid", "model_depth", "units">>) = Str("m")

(***************************************************************************)
(* Flat infile codec: SOG_infile.dump and SOG_infile.load.  Text is a      *)
(* sequence of characters; a record is a mapping of value, description     *)
(* (text) and units (text, None, or colander.null).                        *)
(***************************************************************************)
Q == "\""
SP == " "
NL == "\n"
\* the characters str.strip() and the regular expressions' \s take as
\* whitespace
Whitespace == {" ", "\n", "\t"}
\* colander.null, and the text str() gives for it
Null == [null |-> TRUE]
NullText == <<"<", "c", "o", "l", "a", "n", "d", "e", "r", ".", "n", "u", "l", "l", ">">>
\* the text 'None', which colander serializes None units to
NoneText == <<"N", "o", "n", "e">>
\* the longest line the SOG infile reader takes
MaxLineLen == 240

\* ---- Python's string methods ----

\* the first index from i on whose character is not in chars (Len + 1: none)
SkipChars(s, i, chars) ==
    IF i > Len(s) THEN i
    ELSE CHOOSE j \in i..(Len(s) + 1) :
             /\ j = Len(s) + 1 \/ s[j] \notin chars
             /\ \A k \in i..(j - 1) : s[k] \in chars
\* the last index up to i whose character is not in chars (0: none)
SkipCharsBack(s, i, chars) ==
    IF i < 1 THEN i
    ELSE CHOOSE j \in 0..i :
             /\ j = 0 \/ s[j] \notin chars
             /\ \A k \in (j + 1)..i : s[k] \in chars
\* s.strip(chars)
Strip(s, chars) ==
    SubSeq(s, SkipChars(s, 1, chars), SkipCharsBack(s, Len(s), chars))
\* the first index from i on whose character is in chars (Len + 1: none)
FindChars(s, i, chars) ==
    IF i > Len(s) THEN i
    ELSE CHOOSE j \in i..(Len(s) + 1) :
             /\ j = Len(s) + 1 \/ s[j] \in chars
             /\ \A k \in i..(j - 1) : s[k] \notin chars
\* s.split(): the whitespace-separated tokens of s that start at an
\* index of lo..hi, in order
RECURSIVE SplitTokens(_, _, _)
SplitTokens(s, lo, hi) ==
    IF lo > hi THEN << >>
    ELSE IF lo = hi
    THEN IF s[lo] \notin Whitespace /\ (lo = 1 \/ s[lo - 1] \in Whitespace)
         THEN <<SubSeq(s, lo, FindChars(s, lo, Whitespace) - 1)>>
         ELSE << >>
    ELSE SplitTokens(s, lo, (lo + hi) \div 2) \o SplitTokens(s, (lo + hi) \div 2 + 1, hi)
\* the lines of a text that start at an index of lo..hi, in order, without
\* their line ends
RECURSIVE SplitLines(_, _, _)
SplitLines(s, lo, hi) ==
    IF lo > hi THEN << >>
    ELSE IF lo = hi
    THEN IF lo = 1 \/ s[lo - 1] = NL
         THEN <<SubSeq(s, lo, FindChars(s, lo, {NL}) - 1)>>
         ELSE << >>
    ELSE SplitLines(s, lo, (lo + hi) \div 2) \o SplitLines(s, (lo + hi) \div 2 + 1, hi)
\* sub occurs in s at index i
OccursAt(s, sub, i) ==
    /\ i + Len(sub) - 1 <= Len(s)
    /\ SubSeq(s, i, i + Len(sub) - 1) = sub
\* s.replace(sub, ''), from index i on (sub is not empty)
RECURSIVE RemoveAll(_, _, _)
RemoveAll(s, sub, i) ==
    IF i > Len(s) THEN << >>
    ELSE IF OccursAt(s, sub, i) THEN RemoveAll(s, sub, i + Len(sub))
    ELSE <<s[i]>> \o RemoveAll(s, sub, i + 1)

\* ---- dump ----

\* str(units) as format() writes it
UnitsText(units) == IF units = Null THEN NullText ELSE units.str

\* the broken form of a long line: the quoted key, one value token per
\* line, then the description
RECURSIVE ValueLines(_, _, _)
ValueLines(tokens, lo, hi) ==
    IF lo > hi THEN << >>
    ELSE IF lo = hi THEN <<SP, SP>> \o tokens[lo] \o <<NL>>
    ELSE ValueLines(tokens, lo, (lo + hi) \div 2)
             \o ValueLines(tokens, (lo + hi) \div 2 + 1, hi)
BrokenLine(key, rec) ==
    <<Q>> \o key \o <<Q, NL>> \o ValueLines(SplitTokens(rec.value, 1, Len(rec.value)), 1,
                                                Len(SplitTokens(rec.value, 1, Len(rec.value))))
        \o <<SP, SP, Q>> \o rec.description

\* max_line_len of build_line
MaxLen(units) ==
    IF units = Null THEN MaxLineLen ELSE MaxLineLen - (Len(units.str) + 3)

\* build_line(key): the line without its closing quote, or the exception:
\* KeyError for a key not in data, TypeError for len(None)
build_line(data, key) ==
    IF key \notin DOMAIN data THEN [exc |-> "KeyError", line |-> << >>]
    ELSE LET rec == data[key]
             line == <<Q>> \o key \o <<Q, SP, SP>> \o rec.value \o <<SP, SP, Q>>
                        \o rec.description
         IN  IF rec.units = None THEN [exc |-> "TypeError", line |-> << >>]
             ELSE LET fitted == IF Len(line) > MaxLen(rec.units)
                                THEN BrokenLine(key, rec) ELSE line
                  IN  [exc |-> "no",
                       line |-> IF rec.units # Str(NoneText)
                                THEN fitted \o <<SP, "[">> \o UnitsText(rec.units) \o <<"]">>
                                ELSE fitted]

\* stream.write('{0}"\n'.format(line))
WriteLine(line) == line \o <<Q, NL>>

\* handle_extra_keys for each key of a list of extra keys from index i
\* on: the text written, and the exception that ended it
RECURSIVE WriteExtraKeys(_, _, _, _)
\* a handle_extra_keys that goes through the extra keys from the last one
handle_extra_keys_reversed(data, extra_keys, key) ==
    IF key \notin DOMAIN extra_keys THEN [exc |-> "no", out |-> << >>]
    ELSE IF data[key].value \notin DOMAIN extra_keys[key]
    THEN [exc |-> "KeyError", out |-> << >>]
    ELSE LET keys == extra_keys[key][data[key].value]
         IN  WriteExtraKeys(data, extra_keys,
                            [i \in 1..Len(keys) |-> keys[Len(keys) + 1 - i]], 1)
\* handle_extra_keys(key): the lines of the extra keys registered for the
\* key's value, each followed by its own extra keys
handle_extra_keys(data, extra_keys, key) ==
    IF key \notin DOMAIN extra_keys THEN [exc |-> "no", out |-> << >>]
    ELSE IF data[key].value \notin DOMAIN extra_keys[key]
    THEN [exc |-> "KeyError", out |-> << >>]
    ELSE WriteExtraKeys(data, extra_keys, extra_keys[key][data[key].value], 1)
WriteExtraKeys(data, extra_keys, keys, i) ==
    IF i > Len(keys) THEN [exc |-> "no", out |-> << >>]
    ELSE LET built == build_line(data, keys[i])
         IN  IF built.exc # "no" THEN [exc |-> built.exc, out |-> << >>]
             ELSE LET own == handle_extra_keys(data, extra_keys, keys[i])
                      rest == WriteExtraKeys(data, extra_keys, keys, i + 1)
                  IN  IF own.exc # "no"
                      THEN [exc |-> own.exc, out |-> WriteLine(built.line) \o own.out]
                      ELSE [exc |-> rest.exc,
                            out |-> WriteLine(built.line) \o own.out \o rest.out]

\* the loop of handle_avg_hist_forcing over the special keys from index i on
RECURSIVE WriteSpecialKeys(_, _, _)
WriteSpecialKeys(data, keys, i) ==
    IF i > Len(keys) THEN [exc |-> "no", out |-> << >>]
    ELSE LET built == build_line(data, keys[i])
             rest == WriteSpecialKeys(data, keys, i + 1)
         IN  IF built.exc # "no" THEN [exc |-> built.exc, out |-> << >>]
             ELSE [exc |-> rest.exc, out |-> WriteLine(built.line) \o rest.out]

\* a handle_avg_hist_forcing that goes through the listed keys from the
\* last one
handle_avg_hist_forcing_reversed(data, avg_hist_forcing_keys, key) ==
    IF key \notin DOMAIN avg_hist_forcing_keys THEN [exc |-> "no", out |-> << >>]
    ELSE LET entry == avg_hist_forcing_keys[key]
         IN  IF entry.trigger \notin DOMAIN data THEN [exc |-> "KeyError", out |-> << >>]
             ELSE LET trigger_value == Strip(data[entry.trigger].value, {Q})
                  IN  IF trigger_value \notin DOMAIN entry.keys
                      THEN [exc |-> "KeyError", out |-> << >>]
                      ELSE LET keys == entry.keys[trigger_value]
                           IN  WriteSpecialKeys(data,
                                   [i \in 1..Len(keys) |-> keys[Len(keys) + 1 - i]], 1)
\* handle_avg_hist_forcing(key): nothing for a key that is not
\* registered; else the lines of the keys listed for the trigger's value
\* with its quotes stripped
handle_avg_hist_forcing(data, avg_hist_forcing_keys, key) ==
    IF key \notin DOMAIN avg_hist_forcing_keys THEN [exc |-> "no", out |-> << >>]
    ELSE LET entry == avg_hist_forcing_keys[key]
         IN  IF entry.trigger \notin DOMAIN data THEN [exc |-> "KeyError", out |-> << >>]
             ELSE LET trigger_value == Strip(data[entry.trigger].value, {Q})
                  IN  IF trigger_value \notin DOMAIN entry.keys
                      THEN [exc |-> "KeyError", out |-> << >>]
                      ELSE WriteSpecialKeys(data, entry.keys[trigger_value], 1)

\* the loop of dump over key_order from index i on
RECURSIVE DumpLoop(_, _, _, _, _)
DumpLoop(data, key_order, extra_keys, avg_hist_forcing_keys, i) ==
    IF i > Len(key_order) THEN [exc |-> "no", out |-> << >>]
    ELSE LET key == key_order[i]
             built == build_line(data, key)
             before == handle_avg_hist_forcing(data, avg_hist_forcing_keys, key)
             after == handle_extra_keys(data, extra_keys, key)
             rest == DumpLoop(data, key_order, extra_keys, avg_hist_forcing_keys, i + 1)
         IN  IF built.exc # "no" THEN [exc |-> built.exc, out |-> << >>]
             ELSE IF before.exc # "no" THEN [exc |-> before.exc, out |-> before.out]
             ELSE IF after.exc # "no"
             THEN [exc |-> after.exc, out |-> before.out \o WriteLine(built.line) \o after.out]
             ELSE [exc |-> rest.exc,
                   out |-> before.out \o WriteLine(built.line) \o after.out \o rest.out]

\* a dump that goes through key_order from its end
dump_in_reverse_order(data, key_order, extra_keys, avg_hist_forcing_keys) ==
    DumpLoop(data, [i \in 1..Len(key_order) |-> key_order[Len(key_order) + 1 - i]],
             extra_keys, avg_hist_forcing_keys, 1)
\* dump(data, key_order, extra_keys, avg_hist_forcing_keys, stream): what
\* is written to the stream, and the exception that ended the call
dump(data, key_order, extra_keys, avg_hist_forcing_keys) ==
    DumpLoop(data, key_order, extra_keys, avg_hist_forcing_keys, 1)

\* ---- load ----

\* get_line(): the next line from index i on that, stripped, is neither
\* empty nor a comment, and the index after it; stop is StopIteration
RECURSIVE get_line(_, _)
get_line(lines, i) ==
    IF i > Len(lines) THEN [stop |-> TRUE, line |-> << >>, next |-> i]
    ELSE LET line == Strip(lines[i], Whitespace)
         IN  IF line = << >> \/ line[1] = "!" THEN get_line(lines, i + 1)
             ELSE [stop |-> FALSE, line |-> line, next |-> i + 1]

\* the least member of a set of indexes (0: the set is empty)
FirstOf(S) == IF S = {} THEN 0 ELSE CHOOSE i \in S : \A j \in S : i <= j
\* where "\s+ first matches: the index of a double quote that whitespace
\* follows (0: no match)
FindKeyValueSeparator(line) ==
    FirstOf({i \in 1..(Len(line) - 1) : line[i] = Q /\ line[i + 1] \in Whitespace})
\* key_value_separator.split(line, 1): the texts before and after the
\* match; ok is false when unpacking raises ValueError (no match)
SplitKeyValue(line) ==
    LET at == FindKeyValueSeparator(line)
    IN  IF at = 0 THEN [ok |-> FALSE, head |-> line, tail |-> << >>]
        ELSE [ok |-> TRUE, head |-> SubSeq(line, 1, at - 1),
              tail |-> SubSeq(line, SkipChars(line, at + 1, Whitespace), Len(line))]

\* where \s+" first matches: the first index of whitespace from which
\* whitespace runs up to a double quote (0: no match)
FindValueDescSeparator(line) ==
    FirstOf({i \in 1..(Len(line) - 1) :
                /\ line[i] \in Whitespace
                /\ SkipChars(line, i, Whitespace) <= Len(line)
                /\ line[SkipChars(line, i, Whitespace)] = Q})
\* value_desc_separator.split(line, 1)
SplitValueDesc(line) ==
    LET at == FindValueDescSeparator(line)
    IN  IF at = 0 THEN [ok |-> FALSE, head |-> line, tail |-> << >>]
        ELSE [ok |-> TRUE, head |-> SubSeq(line, 1, at - 1),
              tail |-> SubSeq(line, SkipChars(line, at, Whitespace) + 1, Len(line))]

\* units_container.search(description): \[.+\] matches from the first [
\* to the last ] when at least one character lies between them
SearchUnits(description) ==
    LET open == FindChars(description, 1, {"["})
        close == SkipCharsBack(description, Len(description),
                               {c \in Range(description) : c # "]"})
    IN  IF open <= Len(description) /\ close >= open + 2
        THEN [found |-> TRUE, group |-> SubSeq(description, open, close)]
        ELSE [found |-> FALSE, group |-> << >>]

\* the record load stores for a value and a description as split
LoadedRecord(value, description) ==
    LET stripped == Strip(description, {Q})
        m == SearchUnits(stripped)
    IN  [value |-> Strip(value, {Q}),
         description |-> IF m.found
                         THEN Strip(RemoveAll(stripped, m.group, 1), Whitespace)
                         ELSE stripped,
         units |-> IF m.found THEN Str(Strip(m.group, {"[", "]"})) ELSE None]

\* a join that puts no space between the lines
JoinLinesWithoutSpace(line, next_line) == line \o next_line
\* ' '.join((line, get_line()))
JoinLines(line, next_line) == line \o <<SP>> \o next_line

\* the while loop of load from line i on: the map returned at
\* StopIteration, or the ValueError of a second split that fails
RECURSIVE LoadLoop(_, _, _)
LoadLoop(lines, i, result) ==
    LET first == get_line(lines, i)
        kv1 == SplitKeyValue(first.line)
        second == get_line(lines, first.next)
        kv == IF kv1.ok THEN kv1 ELSE SplitKeyValue(JoinLines(first.line, second.line))
        after_key == IF kv1.ok THEN first.next ELSE second.next
        vd1 == SplitValueDesc(kv.tail)
        third == get_line(lines, after_key)
        vd == IF vd1.ok THEN vd1 ELSE SplitValueDesc(JoinLines(kv.tail, third.line))
        after_value == IF vd1.ok THEN after_key ELSE third.next
    IN  IF first.stop THEN [exc |-> "no", result |-> result]
        ELSE IF ~kv1.ok /\ second.stop THEN [exc |-> "no", result |-> result]
        ELSE IF ~kv.ok THEN [exc |-> "ValueError", result |-> result]
        ELSE IF ~vd1.ok /\ third.stop THEN [exc |-> "no", result |-> result]
        ELSE IF ~vd.ok THEN [exc |-> "ValueError", result |-> result]
        ELSE LoadLoop(lines, after_value,
                      DictSet(result, Strip(kv.head, {Q}), LoadedRecord(vd.head, vd.tail)))

\* load(stream) of a stream that holds the text
load(text) == LoadLoop(SplitLines(text, 1, Len(text)), 1, << >>)

\* ---- the data handed to dump ----

\* the most value tokens of a list value
MaxTokens == 117

KeyK == <<"k">>
KeyC == <<"c">>
KeyG == <<"g">>
\* values by lexical kind: a bare number, a boolean, a double-quoted
\* string, a double-quoted datetime, a whitespace-separated list
NumberValue == <<"1">>
TrueValue == <<".", "t", "r", "u", "e", ".">>
FalseValue == <<".", "f", "a", "l", "s", "e", ".">>
StringValue == <<Q, "s", Q>>
DatetimeValue == <<Q, "d", SP, "t", Q>>
ListValue(n) == [i \in 1..(2 * n - 1) |-> IF i % 2 = 1 THEN "1" ELSE SP]
\* the list lengths: a short list, and those whose line is about as long
\* as the longest line
ListLens == {2} \cup ((MaxTokens - 4)..MaxTokens)
Values == {NumberValue, TrueValue, StringValue, DatetimeValue}
              \cup {ListValue(n) : n \in ListLens}
Descriptions == {<<"d">>, <<"d", "d">>}
\* units: a units string, the text 'None', colander.null, None
UnitsValues == {Str(<<"m">>), Str(NoneText), Null, None}
Records == [value : Values, description : Descriptions, units : UnitsValues]
ShortRecords == [value : {NumberValue, StringValue, ListValue(2)},
                 description : {<<"d">>}, units : {Str(<<"m">>), Str(NoneText)}]
ChildRecord == [value |-> <<"2">>, description |-> <<"e">>, units |-> Str(<<"s">>)]
GrandchildRecord == [value |-> <<"3">>, description |-> <<"f">>, units |-> Str(NoneText)]
YesValue == <<"y", "e", "s">>
NoValue == <<"n", "o">>

DumpArgs(data, key_order, extra_keys, avg_hist_forcing_keys) ==
    [data |-> data, key_order |-> key_order, extra_keys |-> extra_keys,
     avg_hist_forcing_keys |-> avg_hist_forcing_keys]
\* one record, no expansions
OneKeyInputs == {DumpArgs(KeyK :> r, <<KeyK>>, << >>, << >>) : r \in Records}
\* two records in either order
TwoKeyInputs ==
    {DumpArgs((KeyK :> r) @@ (KeyC :> ChildRecord), order, << >>, << >>) :
        r \in ShortRecords, order \in {<<KeyK, KeyC>>, <<KeyC, KeyK>>}}
\* a boolean key with a conditional child that has a conditional child
ExtraKeyInputs ==
    {DumpArgs((KeyK :> [value |-> b, description |-> <<"d">>, units |-> Str(NoneText)])
                  @@ (KeyC :> ChildRecord) @@ (KeyG :> GrandchildRecord),
              <<KeyK>>,
              (KeyK :> ((TrueValue :> <<KeyC>>) @@ (FalseValue :> << >>)))
                  @@ (KeyC :> (ChildRecord.value :> <<KeyG>>)),
              << >>) : b \in {TrueValue, FalseValue}}
\* a key registered with a trigger key
AvgHistForcingInputs ==
    {DumpArgs((KeyK :> [value |-> NumberValue, description |-> <<"d">>, units |-> Str(<<"m">>)])
                  @@ (KeyC :> [value |-> <<Q>> \o t \o <<Q>>, description |-> <<"e">>,
                               units |-> Str(NoneText)])
                  @@ (KeyG :> GrandchildRecord),
              <<KeyC, KeyK>>,
              << >>,
              KeyK :> [trigger |-> KeyC,
                       keys |-> (YesValue :> <<KeyG>>) @@ (NoValue :> << >>)]) :
        t \in {YesValue, NoValue}}
KeyH == <<"h">>
KeyT == <<"t">>
SiblingRecord == [value |-> <<"4">>, description |-> <<"i">>, units |-> Str(<<"s">>)]
OtherRecord == [value |-> <<"5">>, description |-> <<"j">>, units |-> Str(NoneText)]
\* a boolean key with two conditional children, the first of which has a
\* conditional child, before or after a key without any
SiblingExtraKeyInputs ==
    {DumpArgs((KeyK :> [value |-> b, description |-> <<"d">>, units |-> Str(NoneText)])
                  @@ (KeyC :> ChildRecord) @@ (KeyG :> GrandchildRecord)
                  @@ (KeyH :> SiblingRecord) @@ (KeyT :> OtherRecord),
              order,
              (KeyK :> ((TrueValue :> <<KeyC, KeyH>>) @@ (FalseValue :> << >>)))
                  @@ (KeyC :> (ChildRecord.value :> <<KeyG>>)),
              << >>) :
        b \in {TrueValue, FalseValue}, order \in {<<KeyK, KeyT>>, <<KeyT, KeyK>>}}
\* a key registered with a trigger key and two keys listed for one of the
\* trigger's values, after one or two earlier keys
TwoSpecialKeyInputs ==
    {DumpArgs((KeyK :> [value |-> NumberValue, description |-> <<"d">>, units |-> Str(<<"m">>)])
                  @@ (KeyC :> [value |-> <<Q>> \o t \o <<Q>>, description |-> <<"e">>,
                               units |-> Str(NoneText)])
                  @@ (KeyG :> GrandchildRecord) @@ (KeyH :> SiblingRecord)
                  @@ (KeyT :> OtherRecord),
              order,
              << >>,
              KeyK :> [trigger |-> KeyC,
                       keys |-> (YesValue :> <<KeyG, KeyH>>) @@ (NoValue :> << >>)]) :
        t \in {YesValue, NoValue}, order \in {<<KeyC, KeyK>>, <<KeyC, KeyT, KeyK>>}}
DumpInputs == OneKeyInputs \cup TwoKeyInputs \cup ExtraKeyInputs \cup AvgHistForcingInputs
                  \cup SiblingExtraKeyInputs \cup TwoSpecialKeyInputs

\* ---- the infiles handed to load ----

\* the description field of a record as it is written: the description,
\* then the units in brackets when the record has units
DescriptionField(rec) ==
    <<Q>> \o rec.description
        \o (IF rec.units = None THEN << >> ELSE <<SP, "[">> \o rec.units.str \o <<"]">>)
        \o <<Q>>
\* the physical lines of the first fields (1: the key, 2: key and
\* value, 3: the whole record) of a record, with a line break after the
\* key, after the value, at both places or at neither
PhysicalLines(key, rec, break_after_key, break_after_value, fields) ==
    LET key_field == <<Q>> \o key \o <<Q>>
    IN  IF fields = 1 THEN <<key_field>>
        ELSE IF fields = 2
        THEN IF break_after_key THEN <<key_field, <<SP, SP>> \o rec.value>>
             ELSE <<key_field \o <<SP, SP>> \o rec.value>>
        ELSE IF break_after_key /\ break_after_value
        THEN <<key_field, <<SP, SP>> \o rec.value, <<SP, SP>> \o DescriptionField(rec)>>
        ELSE IF break_after_key
        THEN <<key_field, <<SP, SP>> \o rec.value \o <<SP, SP>> \o DescriptionField(rec)>>
        ELSE IF break_after_value
        THEN <<key_field \o <<SP, SP>> \o rec.value, <<SP, SP>> \o DescriptionField(rec)>>
        ELSE <<key_field \o <<SP, SP>> \o rec.value \o <<SP, SP>> \o DescriptionField(rec)>>
\* the text of a list of lines, each with its line end
RECURSIVE TextOf(_)
TextOf(lines) ==
    IF lines = << >> THEN << >> ELSE Head(lines) \o <<NL>> \o TextOf(Tail(lines))
\* a list of lines with one more line put in after the first p lines
InsertLine(lines, p, line) ==
    SubSeq(lines, 1, p) \o <<line>> \o SubSeq(lines, p + 1, Len(lines))
\* the lines load skips: a comment, an empty line
CommentLine == <<"!", SP, "c">>
SkippedLines == {CommentLine, << >>}

\* records as an infile holds them: a units string in brackets or none
InfileRecords == [value : {NumberValue, TrueValue, StringValue, DatetimeValue, ListValue(2)},
                  description : Descriptions, units : {Str(<<"m">>), None}]
FewInfileRecords == [value : {NumberValue, StringValue}, description : {<<"d">>},
                     units : {Str(<<"m">>), None}]
InfileOf(lines, one_line, records, keys, truncated) ==
    [text |-> TextOf(lines), one_line |-> TextOf(one_line), records |-> records,
     keys |-> keys, truncated |-> truncated]
\* one record on one to three physical lines
OneRecordInfiles ==
    {InfileOf(PhysicalLines(KeyK, rec, b1, b2, 3),
              PhysicalLines(KeyK, rec, FALSE, FALSE, 3), KeyK :> rec, <<KeyK>>, FALSE) :
        rec \in InfileRecords, b1 \in BOOLEAN, b2 \in BOOLEAN}
\* the same with a comment or an empty line put in at any place
SkippedLineInfiles ==
    UNION {{InfileOf(InsertLine(PhysicalLines(KeyK, rec, b1, b2, 3), p, skipped),
                     PhysicalLines(KeyK, rec, FALSE, FALSE, 3), KeyK :> rec, <<KeyK>>, FALSE) :
               p \in 0..Len(PhysicalLines(KeyK, rec, b1, b2, 3)), skipped \in SkippedLines} :
           rec \in FewInfileRecords, b1 \in BOOLEAN, b2 \in BOOLEAN}
\* two records, one per line
TwoRecordInfiles ==
    {InfileOf(PhysicalLines(KeyK, rec, FALSE, FALSE, 3)
                  \o PhysicalLines(KeyC, other, FALSE, FALSE, 3),
              PhysicalLines(KeyK, rec, FALSE, FALSE, 3)
                  \o PhysicalLines(KeyC, other, FALSE, FALSE, 3),
              (KeyK :> rec) @@ (KeyC :> other), <<KeyK, KeyC>>, FALSE) :
        rec \in FewInfileRecords, other \in FewInfileRecords}
\* an infile that ends after the key or after the value of its last
\* record, alone or after a whole record
TruncatedInfiles ==
    UNION {{InfileOf(first \o PhysicalLines(KeyC, rec, b1, FALSE, fields),
                     first \o PhysicalLines(KeyC, rec, FALSE, FALSE, 3),
                     IF first = << >> THEN KeyC :> rec ELSE (KeyK :> rec) @@ (KeyC :> rec),
                     (IF first = << >> THEN << >> ELSE <<KeyK>>) \o <<KeyC>>, TRUE) :
               first \in {<< >>, PhysicalLines(KeyK, rec, FALSE, FALSE, 3)},
               fields \in {1, 2}} :
           rec \in FewInfileRecords, b1 \in BOOLEAN}
InfileInputs == OneRecordInfiles \cup SkippedLineInfiles \cup TwoRecordInfiles
                    \cup TruncatedInfiles

\* ---- the codec as a state machine ----

\* data handed to dump
InitDump ==
    /\ codec_pc = "ready"
    /\ \E args \in DumpInputs :
           /\ dump_data = args.data
           /\ dump_key_order = args.key_order
           /\ dump_extra_keys = args.extra_keys
           /\ dump_avg_hist_forcing_keys = args.avg_hist_forcing_keys
    /\ infile = [text |-> << >>, one_line |-> << >>, records |-> << >>, keys |-> << >>,
                 truncated |-> FALSE]

\* an infile handed to load
InitLoad ==
    /\ codec_pc = "infile"
    /\ infile \in InfileInputs
    /\ dump_data = << >>
    /\ dump_key_order = << >>
    /\ dump_extra_keys = << >>
    /\ dump_avg_hist_forcing_keys = << >>

InitCodec ==
    /\ IdleBatch
    /\ IdleMerge
    /\ IdlePrepare
    /\ IdleCreate
    /\ IdleStart
    /\ IdleTransform
    /\ InitDump \/ InitLoad
    /\ stream = << >>
    /\ dump_raised = "no"
    /\ load_result = << >>
    /\ load_raised = "no"

\* dump(data, key_order, extra_keys, avg_hist_forcing_keys, stream)
Dump ==
    /\ codec_pc = "ready"
    /\ LET dumped == dump(dump_data, dump_key_order, dump_extra_keys,
                          dump_avg_hist_forcing_keys)
       IN  /\ stream' = dumped.out
           /\ dump_raised' = dumped.exc
    /\ codec_pc' = "dumped"
    /\ UNCHANGED <<not_codec_vars, dump_data, dump_key_order, dump_extra_keys,
                   dump_avg_hist_forcing_keys, load_result, load_raised, infile>>

\* load(stream) of the text dump wrote
Load ==
    /\ codec_pc = "dumped"
    /\ dump_raised = "no"
    /\ LET loaded == load(stream)
       IN  /\ load_result' = loaded.result
           /\ load_raised' = loaded.exc
    /\ codec_pc' = "loaded"
    /\ UNCHANGED <<not_codec_vars, dump_data, dump_key_order, dump_extra_keys,
                   dump_avg_hist_forcing_keys, stream, dump_raised, infile>>

\* load(stream) of an infile
LoadInfile ==
    /\ codec_pc = "infile"
    /\ LET loaded == load(infile.text)
       IN  /\ load_result' = loaded.result
           /\ load_raised' = loaded.exc
    /\ codec_pc' = "parsed"
    /\ UNCHANGED <<not_codec_vars, dump_data, dump_key_order, dump_extra_keys,
                   dump_avg_hist_forcing_keys, stream, dump_raised, infile>>

\* dump of the map load returned, with the keys of the infile as
\* key_order and no extra keys
DumpLoaded ==
    /\ codec_pc = "parsed"
    /\ load_raised = "no"
    /\ Range(infile.keys) \subseteq DOMAIN load_result
    /\ dump_data' = load_result
    /\ dump_key_order' = infile.keys
    /\ LET dumped == dump(load_result, infile.keys, << >>, << >>)
       IN  /\ stream' = dumped.out
           /\ dump_raised' = dumped.exc
    /\ codec_pc' = "rewritten"
    /\ UNCHANGED <<not_codec_vars, dump_extra_keys, dump_avg_hist_forcing_keys,
                   load_result, load_raised, infile>>

NextCodec == Dump \/ Load \/ LoadInfile \/ DumpLoaded

SpecCodec == InitCodec /\ [][NextCodec]_vars

(***************************************************************************)
(* Claims about the flat infile codec.                                     *)
(***************************************************************************)

\* the physical lines of the text dump wrote, each with its closing quote
\* and without its line end
WrittenLines == SplitLines(stream, 1, Len(stream))

\* C9: every physical line that dump writes to the stream, counted with
\* its closing double quote, is at most 240 characters long, whatever
\* the key, the number of value tokens and the units.
C9_LineLengthLimit ==
    codec_pc \in {"dumped", "loaded"} =>
        \A i \in 1..Len(WrittenLines) : Len(WrittenLines[i]) <= MaxLineLen

\* key_order covers the data, and no expansion is registered
CoveringKeyOrder ==
    /\ Range(dump_key_order) = DOMAIN dump_data
    /\ dump_extra_keys = << >>
    /\ dump_avg_hist_forcing_keys = << >>

\* C10: flat codec round trip: for a map whose values follow the lexical
\* rules of the format and a key order that covers it, load of the text
\* that dump wrote returns a map equal to the one dumped.
C10_RoundTrip ==
    (codec_pc = "loaded" /\ CoveringKeyOrder) =>
        (load_raised = "no" /\ load_result = dump_data)

\* the infile is one well-formed record on a single line
SingleLineRecord ==
    /\ Len(infile.keys) = 1
    /\ ~infile.truncated
    /\ infile.text = infile.one_line

\* C11: for a well-formed record on a single line, with or without units
\* in brackets, load returns the key with the value, description and
\* units of the line (units null without brackets), and dump of that map
\* with the key as key_order and no extra keys writes the line back.
C11_SingleLineRoundTrip ==
    SingleLineRecord =>
        /\ codec_pc \in {"parsed", "rewritten"} =>
               (load_raised = "no" /\ load_result = infile.records)
        /\ codec_pc = "rewritten" => (dump_raised = "no" /\ stream = infile.text)

\* dump has written and returned
DumpReturned == codec_pc \in {"dumped", "loaded", "rewritten"} /\ dump_raised = "no"

\* the keys of the records written to the stream, in the order written: a
\* record starts at a line whose first character is a double quote, and
\* its key ends at the next double quote
StartsRecord(line) == line # << >> /\ line[1] = Q
RecordLines == SelectSeq(WrittenLines, StartsRecord)
WrittenKeys ==
    [i \in 1..Len(RecordLines) |->
        SubSeq(RecordLines[i], 2, FindChars(RecordLines[i], 2, {Q}) - 1)]

\* the conditional children registered for the current value of a key
Children(key) ==
    IF key \in DOMAIN dump_extra_keys /\ key \in DOMAIN dump_data
       /\ dump_data[key].value \in DOMAIN dump_extra_keys[key]
    THEN dump_extra_keys[key][dump_data[key].value] ELSE << >>
\* the keys of a list from index i on, each followed by its conditional
\* children, depth first
RECURSIVE DepthFirst(_, _)
DepthFirst(keys, i) ==
    IF i > Len(keys) THEN << >>
    ELSE <<keys[i]>> \o DepthFirst(Children(keys[i]), 1) \o DepthFirst(keys, i + 1)
\* the extra keys listed for the current value of the trigger of a key
\* (with its quotes removed)
ForcingKeys(key) ==
    IF key \in DOMAIN dump_avg_hist_forcing_keys
    THEN dump_avg_hist_forcing_keys[key].keys[
             Strip(dump_data[dump_avg_hist_forcing_keys[key].trigger].value, {Q})]
    ELSE << >>
\* the number of records of a key of key_order with its expansions
BlockLen(key) == Len(ForcingKeys(key)) + 1 + Len(DepthFirst(Children(key), 1))
\* the number of records of the first n keys of key_order with their
\* expansions
RECURSIVE BlocksLen(_)
BlocksLen(n) == IF n = 0 THEN 0 ELSE BlocksLen(n - 1) + BlockLen(dump_key_order[n])
\* where in the records written the record of the i-th key of key_order is
OwnPosition(i) == BlocksLen(i - 1) + Len(ForcingKeys(dump_key_order[i])) + 1
\* the keys an expansion of a key of key_order selects
SelectedKeys ==
    UNION {Range(ForcingKeys(dump_key_order[i]))
               \cup Range(DepthFirst(Children(dump_key_order[i]), 1)) :
           i \in 1..Len(dump_key_order)}

\* C12: dump writes the records of key_order in that order: the record
\* of each key is written once as a top-level record, after the whole
\* block (record and expansions) of every earlier key, nothing is written
\* outside these blocks, and a key of the data that is neither in
\* key_order nor selected by an expansion is never written.
C12_KeyOrderKept ==
    DumpReturned =>
        /\ Len(WrittenKeys) = BlocksLen(Len(dump_key_order))
        /\ \A i \in 1..Len(dump_key_order) : WrittenKeys[OwnPosition(i)] = dump_key_order[i]
        /\ \A key \in DOMAIN dump_data :
               key \notin Range(dump_key_order) \cup SelectedKeys
                   => key \notin Range(WrittenKeys)

\* a key with expansions written before a second key, and a key of the
\* data that is not written
C12_Witness ==
    /\ DumpReturned
    /\ dump_key_order = <<KeyK, KeyT>>
    /\ Len(WrittenKeys) = 5
    /\ WrittenKeys[5] = KeyT

\* the keys of the records written at the positions from .. to (up to
\* the last record written)
WrittenFrom(from, to) ==
    SubSeq(WrittenKeys, from, IF to > Len(WrittenKeys) THEN Len(WrittenKeys) ELSE to)
\* the first record of the block of the i-th key of key_order (beyond
\* the last key: nothing)
FirstOfBlock(i) ==
    IF i > Len(dump_key_order) THEN << >>
    ELSE <<Head(ForcingKeys(dump_key_order[i]) \o <<dump_key_order[i]>>)>>

\* C13: conditional expansion: the children registered for the current
\* value of a key are written right after the key's own record, in their
\* registered order, each followed by its own conditional children (depth
\* first) before its next sibling; with an empty list for the current
\* value the key's own record is followed by the next key's block.
C13_ConditionalExpansion ==
    DumpReturned =>
        \A i \in 1..Len(dump_key_order) :
            LET expansion == DepthFirst(Children(dump_key_order[i]), 1)
                last == OwnPosition(i) + Len(expansion)
            IN  /\ WrittenFrom(OwnPosition(i) + 1, last) = expansion
                /\ WrittenFrom(last + 1, last + 1) = FirstOfBlock(i + 1)

\* two children written in registered order, the child of the first one
\* before the second one
C13_Witness ==
    /\ DumpReturned
    /\ dump_key_order = <<KeyK, KeyT>>
    /\ Children(KeyK) = <<KeyC, KeyH>>
    /\ WrittenKeys = <<KeyK, KeyC, KeyG, KeyH, KeyT>>

\* C14: average/historical forcing expansion: for a key registered with a
\* trigger key, the keys listed for the trigger's current value (its
\* double quotes removed) are written in listed order right before the
\* key's own record and after the blocks of all earlier keys of
\* key_order; with an empty list, or for a key that is not registered,
\* the key's own record comes first in its block.
C14_ForcingExpansion ==
    DumpReturned =>
        \A i \in 1..Len(dump_key_order) :
            /\ WrittenFrom(BlocksLen(i - 1) + 1, OwnPosition(i) - 1)
                   = ForcingKeys(dump_key_order[i])
            /\ WrittenFrom(OwnPosition(i), OwnPosition(i)) = <<dump_key_order[i]>>

\* two listed keys written in listed order between the earlier keys and
\* the registered key, for a trigger value given in double quotes
C14_Witness ==
    /\ DumpReturned
    /\ dump_key_order = <<KeyC, KeyT, KeyK>>
    /\ dump_data[KeyC].value = <<Q>> \o YesValue \o <<Q>>
    /\ WrittenKeys = <<KeyC, KeyT, KeyG, KeyH, KeyK>>

\* C15: load returns the same map for a record written on one physical
\* line, split after the key, after the value or at both places, and
\* with empty lines or lines that start with ! put in anywhere.
C15_LayoutIndependent ==
    (codec_pc \in {"parsed", "rewritten"} /\ ~infile.truncated) =>
        /\ load_raised = "no"
        /\ load(infile.one_line).exc = "no"
        /\ load_result = load(infile.one_line).result

\* a record on three physical lines with a comment between them, loaded
C15_Witness ==
    /\ codec_pc = "parsed"
    /\ ~infile.truncated
    /\ Len(SplitLines(infile.text, 1, Len(infile.text))) = 4
    /\ \E i \in 2..3 : SplitLines(infile.text, 1, Len(infile.text))[i] = CommentLine
    /\ DOMAIN load_result = {KeyK}

\* C16: load never returns a partial result: for an input whose last
\* record is cut off after its key or after its value, load raises an
\* error instead of returning a map without that record.
C16_TruncatedInputRaises ==
    (codec_pc = "parsed" /\ infile.truncated) => load_raised # "no"

(***************************************************************************)
(* Batch description: BatchProcessor.prepare and its helpers.  A key of    *)
(* the description that is not given holds Absent.                         *)
(***************************************************************************)
Absent == [absent |-> TRUE]
List(l) == [list |-> l]
\* the most job entries of a batch description
MaxEntries == 2
\* the hard-coded default of nice
DefaultNice == 19

\* job[jobname][key], resp. self.config[key], does not raise KeyError
Has(mapping, key) == key \in DOMAIN mapping /\ mapping[key] # Absent

\* _job_or_default(jobname, job, key, default): the value of the job entry,
\* else of the top level, else the default, else KeyError
job_or_default(config, entry, key, default) ==
    IF Has(entry, key) THEN [exc |-> "no", value |-> entry[key]]
    ELSE IF Has(config, key) THEN [exc |-> "no", value |-> config[key]]
    ELSE IF default # None THEN [exc |-> "no", value |-> default]
    ELSE [exc |-> "KeyError", value |-> None]

\* the legacy_infile value of a mapping, False when it is not given
LegacyInfileOf(mapping) ==
    IF Has(mapping, "legacy_infile") THEN mapping.legacy_infile ELSE Bool(FALSE)

\* _legacy_infile_default_rules()
legacy_infile_default_rules(config) ==
    LET legacy_infile == LegacyInfileOf(config)
    IN  IF Truthy(legacy_infile) /\ Has(config, "base_infile")
        THEN [exc |-> "KeyError", value |-> None]
        ELSE IF Truthy(legacy_infile) /\ Has(config, "edit_files")
        THEN [exc |-> "KeyError", value |-> None]
        ELSE [exc |-> "no", value |-> legacy_infile]

\* _legacy_infile_job_rules(jobname, job)
legacy_infile_job_rules(entry) ==
    LET legacy_infile == LegacyInfileOf(entry)
    IN  IF Truthy(legacy_infile) /\ ~Has(entry, "base_infile")
        THEN [exc |-> "KeyError", value |-> None]
        ELSE IF Truthy(legacy_infile) /\ Has(entry, "edit_files")
        THEN [exc |-> "KeyError", value |-> None]
        ELSE [exc |-> "no", value |-> legacy_infile]

\* the edit_files list of a mapping, [] when it is not given
EditFilesOf(mapping) ==
    IF Has(mapping, "edit_files") THEN mapping.edit_files.list ELSE << >>

\* '.'.join((path, 'out'))
OutOf(path) == <<path, "out">>
\* a variant of the outfile below that takes the first of the job's own
\* edit files
OutfileOfFirstEditFile(entry, base_infile) ==
    IF Has(entry, "outfile") THEN <<entry.outfile.str>>
    ELSE IF EditFilesOf(entry) # << >> THEN OutOf(EditFilesOf(entry)[1])
    ELSE OutOf(base_infile.str)

\* the outfile of a job: that of its entry, else the last of its own edit
\* files with .out, else its infile with .out
OutfileOf(entry, base_infile) ==
    IF Has(entry, "outfile") THEN <<entry.outfile.str>>
    ELSE IF EditFilesOf(entry) # << >>
    THEN OutOf(EditFilesOf(entry)[Len(EditFilesOf(entry))])
    ELSE OutOf(base_infile.str)

\* the editfiles argument of Job()
JobEditfiles(default_editfiles, job_editfiles) == default_editfiles \o job_editfiles

\* the body of the for loop of _build_jobs for one job entry: the Job
\* built, or the KeyError that a missing key or a rule raised
BuildJob(config, entry, jobname, default_editfiles, default_legacy_infile) ==
    LET SOG_exec == job_or_default(config, entry, "SOG_executable", None)
        base_infile == job_or_default(config, entry, "base_infile", None)
        job_rules == legacy_infile_job_rules(entry)
        nice == job_or_default(config, entry, "nice", Num(DefaultNice))
    IN  IF SOG_exec.exc # "no" \/ base_infile.exc # "no" THEN [exc |-> "KeyError", job |-> None]
        ELSE IF ~Truthy(default_legacy_infile) /\ job_rules.exc # "no"
        THEN [exc |-> "KeyError", job |-> None]
        ELSE [exc |-> "no",
              job |-> [jobname |-> jobname,
                       SOG_exec |-> SOG_exec.value,
                       infile |-> base_infile.value,
                       editfile |-> JobEditfiles(default_editfiles, EditFilesOf(entry)),
                       outfile |-> OutfileOf(entry, base_infile.value),
                       nice |-> nice.value,
                       legacy_infile |-> IF Truthy(default_legacy_infile)
                                         THEN default_legacy_infile
                                         ELSE job_rules.value]]

\* the for loop of _build_jobs from entry i on: the jobs appended, and the
\* exception that ended it
RECURSIVE BuildLoop(_, _, _, _)
BuildLoop(config, i, default_editfiles, default_legacy_infile) ==
    IF i > Len(config.jobs) THEN [exc |-> "no", jobs |-> << >>]
    ELSE LET built == BuildJob(config, config.jobs[i], i, default_editfiles,
                               default_legacy_infile)
             rest == BuildLoop(config, i + 1, default_editfiles, default_legacy_infile)
         IN  IF built.exc # "no" THEN [exc |-> built.exc, jobs |-> << >>]
             ELSE [exc |-> rest.exc, jobs |-> <<built.job>> \o rest.jobs]

\* _build_jobs()
build_jobs(config) ==
    LET default_legacy_infile == legacy_infile_default_rules(config)
    IN  IF default_legacy_infile.exc # "no"
        THEN [exc |-> default_legacy_infile.exc, jobs |-> << >>]
        ELSE BuildLoop(config, 1, EditFilesOf(config), default_legacy_infile.value)

\* ---- the batch descriptions ----

\* job entries: legacy_infile, base_infile, edit_files and outfile given
\* or not
JobEntries ==
    [legacy_infile : {Absent, Bool(TRUE)},
     base_infile : {Absent, Str("own.yaml")},
     edit_files : {Absent, List(<< >>), List(<<"j1.yaml", "j2.yaml">>)},
     outfile : {Absent, Str("job.out")}]
RECURSIVE EntryLists(_)
EntryLists(n) ==
    IF n = 0 THEN {<< >>}
    ELSE {Append(entries, entry) : entries \in EntryLists(n - 1), entry \in JobEntries}
BatchConfigs ==
    [legacy_infile : {Absent, Bool(FALSE), Bool(TRUE)},
     base_infile : {Absent, Str("base.yaml")},
     edit_files : {Absent, List(<< >>), List(<<"e1.yaml", "e2.yaml">>)},
     SOG_executable : {Absent, Str("SOG")},
     jobs : UNION {EntryLists(n) : n \in 1..MaxEntries}]

\* ---- prepare as a state machine ----

InitPrepare ==
    /\ IdleBatch
    /\ IdleMerge
    /\ IdleCodec
    /\ IdleCreate
    /\ IdleStart
    /\ IdleTransform
    /\ prepare_pc = "read"
    /\ batchfile \in BatchConfigs \cup {NoFile}
    /\ built_jobs = << >>
    /\ prepare_raised = "no"

\* prepare() of a batch file that does not exist: IOError
PrepareNoFile ==
    /\ prepare_pc = "read"
    /\ batchfile = NoFile
    /\ prepare_raised' = "IOError"
    /\ prepare_pc' = "prepared"
    /\ UNCHANGED <<not_prepare_vars, batchfile, built_jobs>>

\* prepare(): _read_config() and _build_jobs()
Prepare ==
    /\ prepare_pc = "read"
    /\ batchfile # NoFile
    /\ LET built == build_jobs(batchfile)
       IN  /\ built_jobs' = built.jobs
           /\ prepare_raised' = built.exc
    /\ prepare_pc' = "prepared"
    /\ UNCHANGED <<not_prepare_vars, batchfile>>

NextPrepare == PrepareNoFile \/ Prepare

SpecPrepare == InitPrepare /\ [][NextPrepare]_vars

(***************************************************************************)
(* Claims about the batch description.                                     *)
(***************************************************************************)

\* C17: legacy-mode precondition: prepare raises, or every job it built
\* with legacy_infile true has no edit files and the base infile of its
\* own entry; a job entry with legacy_infile true and an edit_files key
\* always makes prepare raise, and batch-level edit_files are never
\* attached to a legacy job.
C17_LegacyJobsHaveNoEditFiles ==
    (prepare_pc = "prepared" /\ batchfile # NoFile) =>
        \/ prepare_raised # "no"
        \/ /\ \A i \in 1..Len(built_jobs) :
                  Truthy(built_jobs[i].legacy_infile) =>
                      /\ built_jobs[i].editfile = << >>
                      /\ Has(batchfile.jobs[i], "base_infile")
                      /\ built_jobs[i].infile = batchfile.jobs[i].base_infile
           /\ \A i \in 1..Len(batchfile.jobs) :
                  ~(Truthy(LegacyInfileOf(batchfile.jobs[i]))
                        /\ Has(batchfile.jobs[i], "edit_files"))

\* the edit files of the batch descriptions and what they may hold: each
\* sets the value of grid.model_depth
OverlayNames == {"e1.yaml", "e2.yaml", "j1.yaml", "j2.yaml"}
DepthEdit(v) ==
    [grid |-> [model_depth |-> [units |-> None, description |-> None, value |-> v]],
     vary |-> None]
OverlayContents == [OverlayNames -> {DepthEdit(v) : v \in DepthValues}]

\* create_infile's loop over the edit files of a job: the struct after the
\* edit files from position i on are merged in list order
RECURSIVE ApplyOverlays(_, _, _, _)
ApplyOverlays(struct, names, content, i) ==
    IF i > Len(names) THEN struct
    ELSE ApplyOverlays(merge_yaml_structs(content[names[i]], struct).yaml, names, content,
                       i + 1)

\* C24: the overlay list of every built job is the batch-level edit_files
\* followed by the edit_files of its entry, each in its order (a list that
\* is not given counts as empty); so when the overlays are merged into a
\* base document in list order, at every leaf path that a batch-level and a
\* job-level overlay both set the result holds the value of the last
\* job-level overlay that sets it.
C24_JobOverlaysAfterDefaults ==
    (prepare_pc = "prepared" /\ batchfile # NoFile) =>
        \A i \in 1..Len(built_jobs) :
            LET default == IF Has(batchfile, "edit_files")
                           THEN batchfile.edit_files.list ELSE << >>
                entry == batchfile.jobs[i]
                own == IF Has(entry, "edit_files") THEN entry.edit_files.list ELSE << >>
                base == CHOOSE b \in BaseStructs : TRUE
            IN  /\ built_jobs[i].editfile = default \o own
                /\ (default # << >> /\ own # << >>) =>
                       \A content \in OverlayContents :
                           \A q \in SchemaPaths :
                               (Sets(content[own[Len(own)]], q)
                                    /\ \E d \in 1..Len(default) : Sets(content[default[d]], q))
                                   => ValueAt(ApplyOverlays(base, built_jobs[i].editfile,
                                                            content, 1), q)
                                          = ValueAt(content[own[Len(own)]], q)

\* C25 as stated: the outfile of a built job is the outfile of its entry
\* when that is given; otherwise the last path of the job's overlay list
\* (the batch-level edit files followed by its own) with .out appended
\* when that list is not empty; otherwise the job's base infile with .out
\* appended.
C25_OutfileFromOverlayList ==
    (prepare_pc = "prepared" /\ batchfile # NoFile) =>
        \A i \in 1..Len(built_jobs) :
            built_jobs[i].outfile =
                IF Has(batchfile.jobs[i], "outfile") THEN <<batchfile.jobs[i].outfile.str>>
                ELSE IF built_jobs[i].editfile # << >>
                THEN OutOf(built_jobs[i].editfile[Len(built_jobs[i].editfile)])
                ELSE OutOf(built_jobs[i].infile.str)

\* C25 (amended): the outfile of a built job is the outfile of its entry
\* when that is given; otherwise the last of the edit files of its own
\* entry with .out appended when the entry gives a non-empty edit_files
\* list (this is then the last path of the job's overlay list); otherwise
\* the job's base infile with .out appended, also when the batch-level
\* edit files make the overlay list non-empty.
C25_OutfileOfJob ==
    (prepare_pc = "prepared" /\ batchfile # NoFile) =>
        \A i \in 1..Len(built_jobs) :
            LET entry == batchfile.jobs[i]
                own == IF Has(entry, "edit_files") THEN entry.edit_files.list ELSE << >>
                job == built_jobs[i]
            IN  /\ Has(entry, "outfile") => job.outfile = <<entry.outfile.str>>
                /\ (~Has(entry, "outfile") /\ own # << >>) =>
                       /\ job.outfile = <<own[Len(own)], "out">>
                       /\ job.outfile = <<job.editfile[Len(job.editfile)], "out">>
                /\ (~Has(entry, "outfile") /\ own = << >>) =>
                       job.outfile = <<job.infile.str, "out">>

\* C25 witness: a job without own edit files and outfile in a batch with
\* batch-level edit files writes to its base infile with .out, and a job
\* with own edit files to the last of them
C25_Witness ==
    /\ prepare_pc = "prepared" /\ prepare_raised = "no" /\ Len(built_jobs) = 2
    /\ built_jobs[1].editfile = <<"e1.yaml", "e2.yaml">>
    /\ built_jobs[1].outfile = <<"base.yaml", "out">>
    /\ built_jobs[2].editfile = <<"e1.yaml", "e2.yaml", "j1.yaml", "j2.yaml">>
    /\ built_jobs[2].outfile = <<"j2.yaml", "out">>

\* C28: any two distinct jobs of a batch description that prepare()
\* accepted have different outfiles, also when the outfile of a job is not
\* given and comes from its edit files or its base infile.
C28_DistinctOutfiles ==
    (prepare_pc = "prepared" /\ prepare_raised = "no") =>
        \A i, j \in 1..Len(built_jobs) :
            i # j => built_jobs[i].outfile # built_jobs[j].outfile

(***************************************************************************)
(* Validation: infile_processor._deserialize_yaml binds the schema with    *)
(* allow_missing and deserializes what yaml.load returned.  A document is  *)
(* a mapping of mappings; a key that is not in a mapping is missing.  The  *)
(* schema is the part of YAML_Infile the merge above works on; the         *)
(* variable_name of a quantity is declared as its description is and is    *)
(* left out as it is there.                                                *)
(***************************************************************************)
MaxEdits == 1

\* colander.required, the missing value of a node declared without one
Required == [required |-> TRUE]

\* a variant of the binding below that leaves the node required in both
\* modes
deferred_always_required(allow_missing) == Required

\* _deferred_allow_missing(node, kw)
deferred_allow_missing(allow_missing) == IF allow_missing THEN None ELSE Required

\* SchemaNode.deserialize(colander.null): the missing value of the node, or
\* Invalid 'Required'
DeserializeNull(path, missing) ==
    IF missing = Required
    THEN [errors |-> {<<path, "Required">>}, appstruct |-> None]
    ELSE [errors |-> {}, appstruct |-> missing]

\* typ.deserialize of a value: colander.Float raises Invalid for a text
\* that is not a number; booleans and strings are given as such
TypeDeserialize(typ, path, cstruct) ==
    IF typ = "Float" /\ "num" \notin DOMAIN cstruct
    THEN [errors |-> {<<path, "is not a number">>}, appstruct |-> None]
    ELSE [errors |-> {}, appstruct |-> cstruct]

\* what the mapping type does for one child node: value.pop(name, null)
\* and the child's deserialize
DeserializeField(path, typ, missing, cstruct, name) ==
    IF name \notin DOMAIN cstruct
    THEN DeserializeNull(path \o <<name>>, missing)
    ELSE TypeDeserialize(typ, path \o <<name>>, cstruct[name])

\* deserialize of a quantity node (_SOG_YAML_Base and _Float, _Boolean): the
\* errors of all its children are collected
DeserializeQuantity(path, typ, cstruct, allow_missing) ==
    LET u == DeserializeField(path, "String", None, cstruct, "units")
        d == DeserializeField(path, "String", deferred_allow_missing(allow_missing),
                              cstruct, "description")
        v == DeserializeField(path, typ, Required, cstruct, "value")
        errors == u.errors \cup d.errors \cup v.errors
    IN  [errors |-> errors,
         appstruct |-> IF errors # {} THEN None
                       ELSE [units |-> u.appstruct, description |-> d.appstruct,
                             value |-> v.appstruct]]

\* deserialize of a group node with one quantity (_Grid, _Vary)
DeserializeGroup(path, quantity, typ, cstruct, allow_missing) ==
    LET q == IF quantity \notin DOMAIN cstruct
             THEN DeserializeNull(path \o <<quantity>>, deferred_allow_missing(allow_missing))
             ELSE DeserializeQuantity(path \o <<quantity>>, typ, cstruct[quantity],
                                      allow_missing)
    IN  [errors |-> q.errors,
         appstruct |-> IF q.errors # {} THEN None ELSE [k \in {quantity} |-> q.appstruct]]

\* one group child of YAML_Infile; a key the schema does not have is ignored
DeserializeChild(group, quantity, typ, cstruct, allow_missing) ==
    IF group \notin DOMAIN cstruct
    THEN DeserializeNull(<<group>>, deferred_allow_missing(allow_missing))
    ELSE DeserializeGroup(<<group>>, quantity, typ, cstruct[group], allow_missing)

\* yaml_schema.bind(allow_missing=edit_mode).deserialize(data): the errors
\* of colander.Invalid as e.asdict() lists them, path -> message
deserialize(cstruct, allow_missing) ==
    LET g == DeserializeChild("grid", "model_depth", "Float", cstruct, allow_missing)
        y == DeserializeChild("vary", "wind", "Boolean", cstruct, allow_missing)
        errors == g.errors \cup y.errors
    IN  [errors |-> errors,
         appstruct |-> IF errors # {} THEN None
                       ELSE [grid |-> g.appstruct, vary |-> y.appstruct]]

\* a variant of the report below that names the first error only
ReportFirst(errors) == {CHOOSE e \in errors : TRUE}

\* the report _deserialize_yaml prints: pprint of e.asdict()
Report(errors) == errors

\* _deserialize_yaml(data, yaml_schema, yaml_infile, edit_mode)
deserialize_yaml(cstruct, edit_mode) ==
    LET r == deserialize(cstruct, edit_mode)
    IN  IF r.errors # {}
        THEN [exit |-> 2, report |-> <<Report(r.errors)>>, struct |-> NoStruct]
        ELSE [exit |-> NoCode, report |-> << >>, struct |-> r.appstruct]

\* a mapping with the pairs of S whose value is given
Mapping(S) ==
    LET given == {kv \in S : kv[2] # Absent}
    IN  [k \in {kv[1] : kv \in given} |-> (CHOOSE kv \in given : kv[1] = k)[2]]

\* the documents yaml.load returns: a quantity with any of its fields left
\* out and a value of its type or, for a Float, a text; a group without
\* its quantity; a document without a group, or with the group vary
\* under the misspelled key vari
RawQuantities(units, descriptions, values) ==
    {Mapping({<<"units", u>>, <<"description", d>>, <<"value", v>>}) :
        u \in {Absent} \cup units, d \in {Absent} \cup descriptions,
        v \in {Absent} \cup values}
RawGroups(quantity, quantities) ==
    {Absent} \cup {Mapping({<<quantity, q>>}) : q \in {Absent} \cup quantities}
RawDocuments ==
    {Mapping({<<"grid", g>>, <<"vary", y>>, <<"vari", m>>}) :
        g \in RawGroups("model_depth",
                        RawQuantities({Str("m")}, {Str("depth")}, {Num(1), Str("abc")})),
        y \in RawGroups("wind", RawQuantities({Str("yes")}, {Str("vary wind")}, {Bool(TRUE)})),
        m \in {Absent, Mapping({<<"wind", Mapping({<<"value", Bool(TRUE)>>})>>})}}

InitCreate ==
    /\ IdleBatch
    /\ IdleMerge
    /\ IdleCodec
    /\ IdlePrepare
    /\ IdleStart
    /\ IdleTransform
    /\ create_pc = "start"
    /\ yaml_data \in RawDocuments
    /\ edit_data = << >>
    /\ created_struct = NoStruct
    /\ created_edit_struct = NoStruct
    /\ stderr = << >>
    /\ sys_exit = NoCode
    /\ infile_name = NoFile
    /\ temp_infile = NoFile

\* create_infile: the base infile is read and deserialized; sys.exit(2)
\* ends the process
DeserializeBase ==
    /\ create_pc = "start"
    /\ LET r == deserialize_yaml(yaml_data, FALSE)
       IN  /\ stderr' = stderr \o r.report
           /\ sys_exit' = r.exit
           /\ created_struct' = r.struct
           /\ create_pc' = IF r.exit = NoCode THEN "base" ELSE "exited"
    /\ UNCHANGED <<not_create_vars, yaml_data, edit_data, created_edit_struct, infile_name,
                   temp_infile>>

\* create_infile: one iteration of the loop over edit_files; an exception
\* that leaves _merge_yaml_structs leaves create_infile
MergeEditFile(e) ==
    /\ create_pc \in {"base", "edited"}
    /\ Len(edit_data) < MaxEdits
    /\ edit_data' = Append(edit_data, e)
    /\ LET r == deserialize_yaml(e, TRUE)
           m == merge_yaml_structs(r.struct, created_struct)
       IN  /\ stderr' = stderr \o r.report
           /\ sys_exit' = r.exit
           /\ created_edit_struct' = r.struct
           /\ IF r.exit # NoCode
              THEN create_pc' = "exited" /\ UNCHANGED created_struct
              ELSE /\ created_struct' = m.yaml
                   /\ create_pc' = IF m.raised THEN "raised" ELSE "edited"
    /\ UNCHANGED <<not_create_vars, yaml_data, infile_name, temp_infile>>

\* the parameters of yaml_to_infile and of SOG_infile.dump, and the
\* arguments create_infile calls them with
YamlToInfileParameters == <<"yaml_schema", "yaml_struct">>
YamlToInfileCallArguments == <<"YAML_Infile.nodes", "YAML", "yaml_struct">>
DumpParameters == <<"data", "key_order", "extra_keys", "avg_hist_forcing_keys", "stream">>
DumpCallArguments == <<"data", "SOG_KEYS", "SOG_EXTRA_KEYS", "f">>

\* create_infile after the loop: the struct is converted by yaml_to_infile,
\* the temporary file is created (delete=False), dump writes it and
\* infile_name is assigned.  A call whose arguments do not fit the
\* parameters raises TypeError: at yaml_to_infile before the temporary file
\* exists, at dump before a line is written, where the with block closes
\* the empty file.  The exception leaves create_infile
WriteInfile ==
    /\ create_pc \in {"base", "edited"}
    /\ IF Len(YamlToInfileCallArguments) # Len(YamlToInfileParameters)
       THEN /\ temp_infile' = temp_infile
            /\ infile_name' = infile_name
            /\ create_pc' = "raised"
       ELSE IF Len(DumpCallArguments) # Len(DumpParameters)
       THEN /\ temp_infile' = [written |-> << >>, dumped |-> FALSE]
            /\ infile_name' = infile_name
            /\ create_pc' = "raised"
       ELSE /\ temp_infile' = [written |-> created_struct, dumped |-> TRUE]
            /\ infile_name' = [infile |-> created_struct]
            /\ create_pc' = "written"
    /\ UNCHANGED <<not_create_vars, yaml_data, edit_data, created_struct,
                   created_edit_struct, stderr, sys_exit>>

NextCreate ==
    \/ DeserializeBase
    \/ \E e \in RawDocuments : MergeEditFile(e)
    \/ WriteInfile

SpecCreate == InitCreate /\ [][NextCreate]_vars

(***************************************************************************)
(* Claims about validation.                                                *)
(***************************************************************************)

\* the paths of the nodes that are required when allow_missing is false:
\* the groups, the quantities, and the description and value of each
RequiredPaths ==
    UNION {{<<g[1]>>, g, g \o <<"description">>, g \o <<"value">>} :
              g \in {<<"grid", "model_depth">>, <<"vary", "wind">>}}

\* the document has a value at the path
RECURSIVE Present(_, _)
Present(document, path) ==
    /\ Head(path) \in DOMAIN document
    /\ Len(path) > 1 => Present(document[Head(path)], Tail(path))

\* the required paths a document leaves out or misspells
MissingPaths(document) == {p \in RequiredPaths : ~Present(document, p)}

\* those of them that are missing from a mapping that is given
TopMissingPaths(document) ==
    {p \in MissingPaths(document) :
        Len(p) > 1 => Present(document, SubSeq(p, 1, Len(p) - 1))}

IsPrefix(q, p) == Len(q) <= Len(p) /\ SubSeq(p, 1, Len(q)) = q

\* C18: base-mode validation: when the base document leaves out or
\* misspells required paths, _deserialize_yaml prints exactly one report,
\* the report names as Required every such path that is missing from a
\* mapping the document gives (and so covers every missing path, a path
\* below a missing mapping by the path of that mapping), sys.exit is called
\* with a non-zero status, and create_infile has produced no nested
\* document, no merge and no flat infile.
C18_BaseValidationReportsAll ==
    (create_pc \notin {"idle", "start"} /\ MissingPaths(yaml_data) # {}) =>
        /\ create_pc = "exited"
        /\ Len(stderr) = 1
        /\ \A p \in TopMissingPaths(yaml_data) : <<p, "Required">> \in stderr[1]
        /\ \A p \in MissingPaths(yaml_data) : \E e \in stderr[1] : IsPrefix(e[1], p)
        /\ sys_exit # NoCode /\ sys_exit # 0
        /\ created_struct = NoStruct
        /\ edit_data = << >> /\ created_edit_struct = NoStruct
        /\ infile_name = NoFile

\* the base document misspells vary and leaves out the description of
\* grid.model_depth: both paths are in the one report
C18_Witness ==
    /\ create_pc = "exited"
    /\ "vari" \in DOMAIN yaml_data /\ "vary" \notin DOMAIN yaml_data
    /\ TopMissingPaths(yaml_data) = {<<"vary">>, <<"grid", "model_depth", "description">>}
    /\ stderr = <<{<<<<"vary">>, "Required">>,
                   <<<<"grid", "model_depth", "description">>, "Required">>}>>
    /\ sys_exit = 2

\* the paths of all the nodes of the schema: the required ones and units
NodePaths ==
    RequiredPaths
        \cup {<<"grid", "model_depth", "units">>, <<"vary", "wind", "units">>}

\* the nodes a document leaves out of a mapping it gives
TopOmitted(document, paths) ==
    {p \in paths : /\ ~Present(document, p)
                   /\ Len(p) > 1 => Present(document, SubSeq(p, 1, Len(p) - 1))}

\* the Float value of the document is a text
WrongType(document) ==
    /\ Present(document, <<"grid", "model_depth", "value">>)
    /\ "num" \notin DOMAIN document["grid"]["model_depth"]["value"]

\* the latest edit document create_infile read
LastEditData == edit_data[Len(edit_data)]

\* the struct has None at the path
NoneAt(struct, path) == get_value(struct, path) = [exc |-> "no", val |-> None]

ValueOmitted(document) ==
    {p \in TopOmitted(document, NodePaths) : p[Len(p)] = "value"}

StartInfiles == {"infile.yaml"}
StartOutfiles == {<< >>, <<"run", "out">>}
StartExecs == {"./SOG"}

\* the base infiles of the jobs started: the documents with no misspelled key
StartDocuments == {d \in RawDocuments : "vari" \notin DOMAIN d}

\* Job.__init__: dry_run is False for every job
JobArgs ==
    [infile : StartInfiles, outfile : StartOutfiles, legacy_infile : BOOLEAN,
     dry_run : {FALSE}, SOG_exec : StartExecs, nice : {DefaultNice}]

\* a prepare that takes every infile as found
infile_taken_as_found(args_infile, exists) == FALSE

\* prepare: not os.path.exists(args.infile)
infile_not_found(args_infile, exists) == args_infile \notin exists

InitStart ==
    /\ IdleBatch
    /\ IdleMerge
    /\ IdleCodec
    /\ IdlePrepare
    /\ IdleTransform
    /\ create_pc = "idle"
    /\ yaml_data \in StartDocuments
    /\ edit_data = << >>
    /\ created_struct = NoStruct
    /\ created_edit_struct = NoStruct
    /\ stderr = << >>
    /\ sys_exit = NoCode
    /\ infile_name = NoFile
    /\ temp_infile = NoFile
    /\ start_pc = "prepare"
    /\ start_args \in JobArgs
    /\ path_exists \in SUBSET (StartInfiles \cup StartExecs)
    /\ start_infile = NoFile
    /\ cmd = NoCmd
    /\ popen = NoProc
    /\ start_raised = "no"

\* prepare up to the choice of infile: the default outfile, then IOError
\* for an infile that does not exist, then the legacy infile itself, or the
\* name of a temporary file that is gone again (dry run), or the call of
\* create_infile
PrepareInfile ==
    /\ start_pc = "prepare"
    /\ start_args' = IF start_args.outfile = << >>
                     THEN [start_args EXCEPT !.outfile = OutOf(start_args.infile)]
                     ELSE start_args
    /\ IF infile_not_found(start_args.infile, path_exists)
       THEN /\ start_raised' = "IOError"
            /\ start_pc' = "raised"
            /\ UNCHANGED <<start_infile, create_pc>>
       ELSE IF start_args.legacy_infile
       THEN /\ start_infile' = [path |-> start_args.infile]
            /\ start_pc' = "check_exec"
            /\ UNCHANGED <<start_raised, create_pc>>
       ELSE IF start_args.dry_run
       THEN /\ start_infile' = [deleted |-> "tmp.infile"]
            /\ start_pc' = "check_exec"
            /\ UNCHANGED <<start_raised, create_pc>>
       ELSE /\ create_pc' = "start"
            /\ start_pc' = "create"
            /\ UNCHANGED <<start_infile, start_raised>>
    /\ UNCHANGED <<batch_vars, merge_vars, codec_vars, prepare_vars, transform_vars, yaml_data,
                   edit_data,
                   created_struct, created_edit_struct, stderr, sys_exit, infile_name,
                   temp_infile, path_exists, cmd, popen>>

\* create_infile left by sys.exit(2) or by an exception: it leaves prepare
\* and Job.start too.  No call of create_infile returns (WriteInfile), so the
\* assignment of its result to infile is not a step of this part
CreateInfileLeaves ==
    /\ start_pc = "create"
    /\ create_pc \in {"exited", "raised"}
    /\ start_raised' = IF create_pc = "exited" THEN "SystemExit" ELSE "Exception"
    /\ start_pc' = "raised"
    /\ UNCHANGED <<batch_vars, merge_vars, codec_vars, prepare_vars, create_vars,
                   transform_vars, start_args, path_exists, start_infile, cmd, popen>>

\* prepare, second half: IOError for a SOG executable that does not exist,
\* else the command line
CheckExec ==
    /\ start_pc = "check_exec"
    /\ IF start_args.SOG_exec \notin path_exists
       THEN /\ start_raised' = "IOError"
            /\ start_pc' = "raised"
            /\ UNCHANGED cmd
       ELSE /\ cmd' = [nice |-> start_args.nice, SOG_exec |-> start_args.SOG_exec,
                       stdin |-> start_infile, stdout |-> start_args.outfile]
            /\ start_pc' = "prepared"
            /\ UNCHANGED start_raised
    /\ UNCHANGED <<batch_vars, merge_vars, codec_vars, prepare_vars, create_vars,
                   transform_vars, start_args, path_exists, start_infile, popen>>

\* Job.start: subprocess.Popen(cmd, shell=True); the file the shell opens
\* for the standard input of SOG is as it is at that moment
Popen ==
    /\ start_pc = "prepared"
    /\ popen' = [cmd |-> cmd, temp_infile |-> temp_infile]
    /\ start_pc' = "started"
    /\ UNCHANGED <<batch_vars, merge_vars, codec_vars, prepare_vars, create_vars,
                   transform_vars, start_args, path_exists, start_infile, cmd, start_raised>>

NextStart ==
    \/ PrepareInfile
    \/ DeserializeBase
    \/ \E e \in RawDocuments : MergeEditFile(e)
    \/ WriteInfile
    \/ CreateInfileLeaves
    \/ CheckExec
    \/ Popen

SpecStart == InitStart /\ [][NextStart]_vars

(***************************************************************************)
(* Claims on the start of a job                                            *)
(***************************************************************************)

C27_NoJobWithoutLegacyInfileStarts ==
    /\ start_pc = "raised"
    /\ ~start_args.legacy_infile
    /\ sys_exit = NoCode
    /\ start_raised = "Exception"
    /\ temp_infile = NoFile
    /\ popen = NoProc

(***************************************************************************)
(* Transform: SOG_YAML_schema.yaml_to_infile walks the YAML schema and     *)
(* builds the flat infile structure; SOG_infile_schema.infile_to_yaml      *)
(* walks the same nodes and builds the nested structure from the flat one. *)
(* A dotted path is the sequence of its parts between the dots, so an      *)
(* infile key with a dot in it is a sequence of two parts.                 *)
(***************************************************************************)

\* quantity nodes of YAML_Infile: the names from the top node down, the
\* infile_key and the var_name
GridModelDepth ==
    [path |-> <<"grid", "model_depth">>, infile_key |-> <<"maxdepth">>, var_name |-> "grid%D"]
GridGridSize ==
    [path |-> <<"grid", "grid_size">>, infile_key |-> <<"gridsize">>, var_name |-> "grid%M"]
EndDatetime ==
    [path |-> <<"end_datetime">>, infile_key |-> <<"end datetime">>,
     var_name |-> "endDatetime"]
InitialConditionsPCO2Atm ==
    [path |-> <<"initial_conditions", "pCO2_atm">>, infile_key |-> <<"pCO2_atm">>,
     var_name |-> "pCO2_atm"]
MicrozooAssimilationEfficiency ==
    [path |-> <<"biology", "microzooplankton", "microzoo_assimilation_efficiency">>,
     infile_key |-> <<"Microzoo, assimil", " eff">>, var_name |-> "rate_uzoo%eff"]

YAMLQuantityNodes ==
    {GridModelDepth, GridGridSize, EndDatetime, InitialConditionsPCO2Atm,
     MicrozooAssimilationEfficiency}

\* the names of the children of SOG_Infile among the infile keys above
SOGInfileChildren == {<<"maxdepth">>, <<"gridsize">>, <<"end datetime">>,
                      <<"Microzoo, assimil", " eff">>}

\* a schema whose children are filtered, as the tests of infile_to_yaml
\* filter them, or not
YAMLSchemas == SUBSET YAMLQuantityNodes \ {{}}

\* the deserialized quantities: units is None where the infile gives none
TransformValues == {Num(0), Num(1)}
TransformUnits == {None, Str("m")}
QuantityStructs(node) ==
    {[value |-> v, description |-> Str("description"), units |-> u,
      variable_name |-> Str(node.var_name)] : v \in TransformValues, u \in TransformUnits}

\* the names of the children of the node at prefix
ChildNames(nodes, prefix) ==
    {n.path[Len(prefix) + 1] :
        n \in {m \in nodes : Len(m.path) > Len(prefix)
                              /\ SubSeq(m.path, 1, Len(prefix)) = prefix}}

\* the nested structure that has quantity[n] at the path of every node n
RECURSIVE NestedStruct(_, _, _)
NestedStruct(nodes, quantity, prefix) ==
    [name \in ChildNames(nodes, prefix) |->
        LET path == prefix \o <<name>>
        IN  IF \E n \in nodes : n.path = path
            THEN quantity[CHOOSE n \in nodes : n.path = path]
            ELSE NestedStruct(nodes, quantity, path)]

\* the structures the schema accepts
YAMLStructs(nodes) ==
    {NestedStruct(nodes, quantity, << >>) :
        quantity \in {f \in [nodes -> UNION {QuantityStructs(n) : n \in nodes}] :
                         \A n \in nodes : f[n] \in QuantityStructs(n)}}

\* Mapping.get_value of colander on the YAML schema: the path is split at
\* its dots and followed down the structure
RECURSIVE yaml_get_value(_, _)
yaml_get_value(appstruct, path) ==
    IF Len(path) > 1
    THEN yaml_get_value(appstruct[Head(path)], Tail(path))
    ELSE appstruct[Head(path)]

\* transform of yaml_to_infile: the three elements of one quantity
yaml_transform(yaml_struct_arg, node) ==
    [value |-> yaml_get_value(yaml_struct_arg, node.path \o <<"value">>),
     description |-> yaml_get_value(yaml_struct_arg, node.path \o <<"description">>),
     units |-> yaml_get_value(yaml_struct_arg, node.path \o <<"units">>)]

\* yaml_to_infile: walk_subnodes updates the result with one item per
\* quantity node, keyed by its infile_key
yaml_to_infile(yaml_schema, yaml_struct_arg) ==
    [key \in {n.infile_key : n \in yaml_schema} |->
        yaml_transform(yaml_struct_arg, CHOOSE n \in yaml_schema : n.infile_key = key)]

\* get_element of infile_to_yaml: the path '{infile_key}.{element}' is split
\* at its first dot, the part before it is looked up among the children of
\* the infile schema and in the structure, and the rest is followed in the
\* child: a rest with a dot in it looks for a child of the quantity node,
\* which has none of that name
infile_get_value(infile_children, infile_struct_arg, infile_key, element) ==
    LET path == infile_key \o <<element>>
        name == <<Head(path)>>
        rest == Tail(path)
    IN  IF name \notin infile_children \/ name \notin DOMAIN infile_struct_arg
        THEN [exc |-> "KeyError", value |-> None]
        ELSE IF Len(rest) > 1
        THEN [exc |-> "KeyError", value |-> None]
        ELSE [exc |-> "no", value |-> infile_struct_arg[name][Head(rest)]]

\* str() of a deserialized string
str(s) == IF "str" \in DOMAIN s THEN s ELSE [str |-> s]

\* transform of infile_to_yaml: value, description and variable name, and
\* units unless it is None
infile_transform(infile_children, infile_struct_arg, node) ==
    LET v == infile_get_value(infile_children, infile_struct_arg, node.infile_key, "value")
        d == infile_get_value(infile_children, infile_struct_arg, node.infile_key,
                              "description")
        u == infile_get_value(infile_children, infile_struct_arg, node.infile_key, "units")
    IN  IF v.exc # "no" THEN [exc |-> v.exc, result |-> << >>]
        ELSE IF d.exc # "no" THEN [exc |-> d.exc, result |-> << >>]
        ELSE IF u.exc # "no" THEN [exc |-> u.exc, result |-> << >>]
        ELSE [exc |-> "no",
              result |-> LET result == [value |-> v.value, description |-> str(d.value)]
                                           @@ ("variable name" :> Str(node.var_name))
                         IN  IF u.value # None
                             THEN result @@ ("units" :> str(u.value))
                             ELSE result]

\* infile_to_yaml: the exception of the first transform that raises leaves
\* it; else every quantity node has its transform at its path
infile_to_yaml(nodes, infile_children, infile_struct_arg) ==
    LET t == [n \in nodes |-> infile_transform(infile_children, infile_struct_arg, n)]
    IN  IF \E n \in nodes : t[n].exc # "no"
        THEN [exc |-> "KeyError", result |-> << >>]
        ELSE [exc |-> "no",
              result |-> NestedStruct(nodes, [n \in nodes |-> t[n].result], << >>)]

InitTransform ==
    /\ IdleBatch
    /\ IdleMerge
    /\ IdleCodec
    /\ IdlePrepare
    /\ IdleCreate
    /\ IdleStart
    /\ transform_pc = "nested"
    /\ transform_schema \in YAMLSchemas
    /\ transform_struct \in YAMLStructs(transform_schema)
    /\ infile_struct = << >>
    /\ transform_result = << >>
    /\ transform_raised = "no"

\* yaml_to_infile(yaml_schema, yaml_struct)
YamlToInfile ==
    /\ transform_pc = "nested"
    /\ infile_struct' = yaml_to_infile(transform_schema, transform_struct)
    /\ transform_pc' = "flat"
    /\ UNCHANGED <<not_transform_vars, transform_schema, transform_struct,
                   transform_result, transform_raised>>

\* infile_to_yaml(yaml_schema, infile_schema, infile_struct) on what
\* yaml_to_infile returned
InfileToYaml ==
    /\ transform_pc = "flat"
    /\ LET r == infile_to_yaml(transform_schema, SOGInfileChildren, infile_struct)
       IN  /\ transform_result' = r.result
           /\ transform_raised' = r.exc
    /\ transform_pc' = "returned"
    /\ UNCHANGED <<not_transform_vars, transform_schema, transform_struct, infile_struct>>

NextTransform == YamlToInfile \/ InfileToYaml

SpecTransform == InitTransform /\ [][NextTransform]_vars

(***************************************************************************)
(* Claims on the transform                                                 *)
(***************************************************************************)

\* the paths of the quantities of a nested structure
RECURSIVE QuantityPaths(_)
QuantityPaths(struct) ==
    IF "value" \in DOMAIN struct
    THEN {<< >>}
    ELSE UNION {{<<name>> \o p : p \in QuantityPaths(struct[name])} : name \in DOMAIN struct}

\* the units of a quantity: None where it has no units item
UnitsOf(quantity) == IF "units" \in DOMAIN quantity THEN quantity.units ELSE None

\* the round trip gave back the quantities of the structure it started from
RoundTripKeeps ==
    /\ transform_raised = "no"
    /\ QuantityPaths(transform_result) = QuantityPaths(transform_struct)
    /\ \A p \in QuantityPaths(transform_struct) :
           LET was == yaml_get_value(transform_struct, p)
               is == yaml_get_value(transform_result, p)
           IN  /\ is.value = was.value
               /\ is.description = was.description
               /\ UnitsOf(is) = UnitsOf(was)

\* C22: for every nested structure the schema accepts, yaml_to_infile and
\* then infile_to_yaml over the same schema return a nested structure that
\* has the same value, description and units at the path of every quantity
\* and has no other quantity
C22_TransformRoundTrip ==
    transform_pc = "returned" => RoundTripKeeps

====
